---------------------------- MODULE Spec2Model ----------------------------
(***************************************************************************)
(* Monte Carlo retirement projection engine                                *)
(* (src/retirement_planner/calculators/monte_carlo.py and the calculators  *)
(* it calls).                                                              *)
(*                                                                         *)
(* Money, rates and returns are Python floats in the source.  The model    *)
(* computes them as exact rationals <<n, d>> (d > 0, lowest terms); one    *)
(* money unit is $1,000.                                                   *)
(***************************************************************************)
EXTENDS Integers, Sequences, FiniteSets, TLC

-----------------------------------------------------------------------------
(* Exact rational arithmetic standing for the source's float arithmetic.   *)

Abs(x) == IF x < 0 THEN -x ELSE x

RECURSIVE GCD(_, _)
GCD(a, b) == IF b = 0 THEN a ELSE GCD(b, a % b)

Norm(n, d) ==
    LET g == GCD(Abs(n), d)
    IN  IF n = 0 THEN <<0, 1>> ELSE <<n \div g, d \div g>>

R(n) == <<n, 1>>
Q(n, d) == Norm(n, d)
Zero == <<0, 1>>
One == <<1, 1>>

RAdd(a, b) ==
    LET g == GCD(a[2], b[2])
        l == (a[2] \div g) * b[2]
    IN  Norm(a[1] * (l \div a[2]) + b[1] * (l \div b[2]), l)

RNeg(a) == <<-a[1], a[2]>>
RSub(a, b) == RAdd(a, RNeg(b))

RMul(a, b) ==
    LET g1 == GCD(Abs(a[1]), b[2])
        g2 == GCD(Abs(b[1]), a[2])
    IN  IF a[1] = 0 \/ b[1] = 0 THEN Zero
        ELSE <<(a[1] \div g1) * (b[1] \div g2), (a[2] \div g2) * (b[2] \div g1)>>

\* a / b for b # 0
RDiv(a, b) ==
    IF b[1] > 0 THEN RMul(a, <<b[2], b[1]>>) ELSE RMul(a, <<-b[2], -b[1]>>)

RSign(a) == IF a[1] > 0 THEN 1 ELSE IF a[1] < 0 THEN -1 ELSE 0
RPos(a) == a[1] > 0
RNegative(a) == a[1] < 0

\* a < b, compared by integer parts and then by the reciprocals of the
\* fractional parts, so that no cross product is formed
RECURSIVE RLtFrac(_, _, _, _)
RLtFrac(n1, d1, n2, d2) ==
    LET f1 == n1 \div d1
        f2 == n2 \div d2
        r1 == n1 % d1
        r2 == n2 % d2
    IN  IF f1 # f2 THEN f1 < f2
        ELSE IF r2 = 0 THEN FALSE
        ELSE IF r1 = 0 THEN TRUE
        ELSE RLtFrac(d2, r2, d1, r1)

RLt(a, b) == RLtFrac(a[1], a[2], b[1], b[2])
RLe(a, b) == ~RLt(b, a)
RGt(a, b) == RLt(b, a)
RGe(a, b) == ~RLt(a, b)
RMin(a, b) == IF RLt(b, a) THEN b ELSE a
RMax(a, b) == IF RLt(a, b) THEN b ELSE a


\* optional values of the plan mapping: a key that is absent, and float("inf")
None == <<0, 0>>
Inf == <<1, 0>>
Get(x, default) == IF x = None THEN default ELSE x

-----------------------------------------------------------------------------
(* The calculators the simulator calls.                                    *)

rmd_start_age(birth_year) ==
    IF birth_year <= 1950 THEN 72
    ELSE IF 1951 <= birth_year /\ birth_year <= 1959 THEN 73
    ELSE 75

\* IRS Uniform Lifetime Table, ages 72..120, distribution periods in tenths
uniform_lifetime_table ==
    <<274, 265, 255, 246, 237, 229, 220, 211, 202, 194, 185, 177, 168, 160,
      152, 144, 137, 129, 122, 115, 108, 101, 95, 89, 84, 78, 73, 68, 64, 60,
      56, 52, 49, 46, 43, 41, 39, 37, 35, 34, 33, 31, 30, 29, 28, 27, 25, 23,
      20>>

compute_rmd(balance, age) ==
    IF ~RPos(balance) THEN Zero
    ELSE IF age < 72 \/ age > 120 THEN Zero
    ELSE RDiv(balance, Q(uniform_lifetime_table[age - 71], 10))

decide_conversion_NoWindow(prior_pre_tax_balance, age, rc) ==
    IF ~rc.present THEN Zero
    ELSE RMul(prior_pre_tax_balance, RMax(Zero, RMin(One, rc.annual_cap)))

decide_conversion(prior_pre_tax_balance, age, rc) ==
    IF ~rc.present THEN Zero
    ELSE IF age < rc.start_age \/ age > rc.end_age THEN Zero
    ELSE RMul(prior_pre_tax_balance, RMax(Zero, RMin(One, rc.annual_cap)))

\* federal long-term capital-gains brackets of the single filer, as
\* <<rate, start, end>>, in money units (data/tax_tables.json)
\* roth.apply_conversion: the balances after a conversion and the tax due
apply_conversion(pre_tax_balance, roth_balance, amount, tax_rate, pay_tax_from_taxable) ==
    [ pre_tax |-> RSub(pre_tax_balance,
                       RMax(Zero, RMin(amount, pre_tax_balance))),
      roth |-> RAdd(roth_balance,
                IF pay_tax_from_taxable
                THEN RMax(Zero, RMin(amount, pre_tax_balance))
                ELSE RMax(Zero,
                          RSub(RMax(Zero, RMin(amount, pre_tax_balance)),
                               RMul(RMax(Zero, RMin(amount, pre_tax_balance)),
                                    RMax(Zero, tax_rate))))),
      tax_due |-> RMul(RMax(Zero, RMin(amount, pre_tax_balance)),
                       RMax(Zero, tax_rate)) ]

cap_gains_brackets ==
    << <<Zero, Zero, Q(47025, 1000)>>,
       <<Q(15, 100), Q(47025, 1000), Q(518900, 1000)>>,
       <<Q(20, 100), Q(518900, 1000), Inf>> >>

RECURSIVE cg_bracket_loop(_, _, _, _)
cg_bracket_loop(gain, remaining, tax, i) ==
    IF i > Len(cap_gains_brackets) THEN tax
    ELSE LET rate == cap_gains_brackets[i][1]
             start == cap_gains_brackets[i][2]
             end == cap_gains_brackets[i][3]
             amount == IF end = Inf THEN remaining
                       ELSE RMin(remaining, RSub(end, start))
         IN  IF ~RPos(remaining) THEN tax
             ELSE IF RGt(gain, start)
                  THEN cg_bracket_loop(gain, RSub(remaining, amount),
                                       RAdd(tax, RMul(amount, rate)), i + 1)
                  ELSE tax

compute_capital_gains_tax(gain) ==
    IF ~RPos(gain) THEN Zero ELSE cg_bracket_loop(gain, gain, Zero, 1)

\* FRA: int = 67
DefaultFRA == 67

ClampAge_None(claim_age) == claim_age

\* claim_age = max(62, min(70, claim_age))
ClampAge(claim_age) ==
    IF claim_age < 62 THEN 62 ELSE IF claim_age > 70 THEN 70 ELSE claim_age

\* factor of _adjusted_monthly for years_diff = claim_age - FRA
ClaimFactor(years_diff) ==
    IF years_diff < 0
    THEN RAdd(One, RMul(Q(7, 100), R(years_diff)))
    ELSE RAdd(One, RMul(Q(8, 100), R(years_diff)))

\* _adjusted_monthly of social_security_benefit
adjusted_monthly(pia, claim_age, FRA) ==
    RMul(pia, ClaimFactor(ClampAge(claim_age) - FRA))

\* social_security_benefit without a spouse: primary_monthly * 12
social_security_benefit(PIA, start_age, FRA) ==
    RMul(adjusted_monthly(PIA, start_age, FRA), R(12))

\* last record of the list for the age wins (dict assignment), 0 when none
RECURSIVE special_by_age(_, _)
special_by_age(special_list, age) ==
    IF special_list = <<>> THEN Zero
    ELSE LET n == Len(special_list)
         IN  IF special_list[n].age = age THEN special_list[n].amount
             ELSE special_by_age(SubSeq(special_list, 1, n - 1), age)

-----------------------------------------------------------------------------
(* simulate_path, merged accounts: the working copies and the year loop.   *)
(* Each step below takes the locals w as the loop body has them at that    *)
(* line and gives them as they are after it.                               *)

\* the threshold 1e-9 of _cover_need; every amount the model forms is either
\* 0 or larger than it
eps == Q(1, 1000000000)

\* what the working copies hold at one point of the loop body
Held(w) ==
    [ pre_tax |-> w.pre_tax, roth |-> w.roth, taxable |-> w.taxable,
      cash |-> w.cash, basis |-> w.basis, need |-> w.need,
      pre_tax_401k |-> w.pre_tax_401k, pre_tax_ira |-> w.pre_tax_ira,
      roth_401k |-> w.roth_401k, roth_ira |-> w.roth_ira ]

NoHeld ==
    [ pre_tax |-> Zero, roth |-> Zero, taxable |-> Zero, cash |-> Zero,
      basis |-> Zero, need |-> Zero, pre_tax_401k |-> Zero,
      pre_tax_ira |-> Zero, roth_401k |-> Zero, roth_ira |-> Zero ]

\* the balances, the deficit and the withdrawal tax around the deficit cover
CoverHeld(w) ==
    [ pre_tax |-> w.pre_tax, roth |-> w.roth, taxable |-> w.taxable,
      cash |-> w.cash, basis |-> w.basis, deficit |-> RNeg(w.available),
      withdraw_tax |-> w.withdraw_tax ]

NoCoverHeld ==
    [ pre_tax |-> Zero, roth |-> Zero, taxable |-> Zero, cash |-> Zero,
      basis |-> Zero, deficit |-> Zero, withdraw_tax |-> Zero ]

\* the factor 1 + return applied to each account in a year
NoGrowth ==
    [ pre_tax |-> One, roth |-> One, taxable |-> One, pre_tax_401k |-> One,
      pre_tax_ira |-> One, roth_401k |-> One, roth_ira |-> One ]

\* the contribution paid into each 401k/IRA account in a year
NonePaid ==
    [ pre_tax_401k |-> Zero, pre_tax_ira |-> Zero, roth_401k |-> Zero,
      roth_ira |-> Zero, taxable |-> Zero ]

\* working copies of the account mappings and the loop-carried locals
InitPath(plan) ==
    [ pre_tax |-> plan.accounts.pre_tax.balance,
      roth |-> plan.accounts.roth.balance,
      taxable |-> plan.accounts.taxable.balance,
      basis |-> Get(plan.accounts.taxable.basis,
                    plan.accounts.taxable.balance),
      cash |-> plan.accounts.cash.balance,
      salary |-> plan.income.salary,
      roth_limit |-> Get(plan.accounts.roth.annual_limit,
                         plan.accounts.roth.contribution),
      prior_pre_tax_balance |-> Zero,
      year_income |-> Zero, year_expenses |-> Zero, available |-> Zero,
      year_withdrawals |-> Zero, withdraw_tax |-> Zero,
      realized_gains |-> Zero, income_tax |-> Zero,
      pending_pre |-> Zero, pending_roth |-> Zero, pending_taxable |-> Zero,
      gross_conv |-> Zero, conv_tax |-> Zero, rmd_gross |-> Zero,
      need |-> Zero,
      \* observations of the year, for the properties
      swept |-> Zero, rmd_swept |-> Zero, cover_unmet |-> Zero,
      pre_withdrawn |-> Zero, cover_withdrawn |-> Zero,
      pre_at_conv |-> Zero, cash_at_rmd |-> Zero,
      split_contributed |-> Zero,
      at_returns |-> NoHeld, at_conv |-> NoHeld, at_withdrawals |-> NoHeld,
      at_strategy |-> NoHeld, growth |-> NoGrowth, paid |-> NonePaid,
      at_cover |-> NoCoverHeld, after_cover |-> NoCoverHeld,
      \* working copies of the 401k/IRA accounts
      pre_tax_401k |-> Zero, pre_tax_ira |-> Zero,
      roth_401k |-> Zero, roth_ira |-> Zero,
      raised |-> FALSE ]

pre_tax_tax_rate(plan) == plan.accounts.pre_tax.withdrawal_tax_rate

taxable_tax_rate(plan) ==
    Get(plan.accounts.taxable.withdrawal_tax_rate, pre_tax_tax_rate(plan))

\* need / (1 - rate) if rate < 1 else need
GrossUp(need, rate) ==
    IF RLt(rate, One) THEN RDiv(need, RSub(One, rate)) ELSE need

\* prior balance, income of the year, salary growth; the year's locals start
\* at zero
YearIncome(plan, w, age) ==
    [w EXCEPT
       !.prior_pre_tax_balance = w.pre_tax,
       !.year_income =
           RAdd(IF age < plan.retire_age THEN w.salary ELSE Zero,
                IF age >= plan.social_security.claim_age
                      /\ RPos(plan.social_security.PIA)
                THEN social_security_benefit(plan.social_security.PIA,
                                             plan.social_security.claim_age,
                                             DefaultFRA)
                ELSE Zero),
       !.salary = IF age < plan.retire_age
                  THEN RMul(@, RAdd(One, plan.income.salary_growth)) ELSE @,
       !.year_withdrawals = Zero, !.withdraw_tax = Zero,
       !.realized_gains = Zero, !.income_tax = Zero,
       !.pending_pre = Zero, !.pending_roth = Zero, !.pending_taxable = Zero,
       !.gross_conv = Zero, !.conv_tax = Zero, !.rmd_gross = Zero,
       !.need = Zero, !.swept = Zero, !.rmd_swept = Zero,
       !.cover_unmet = Zero, !.pre_withdrawn = Zero,
       !.cover_withdrawn = Zero, !.pre_at_conv = Zero,
       !.cash_at_rmd = Zero, !.at_strategy = NoHeld, !.paid = NonePaid,
       !.at_cover = NoCoverHeld, !.after_cover = NoCoverHeld]

\* year_expenses = baseline + extra; available = year_income - year_expenses
YearExpenses(plan, w, age) ==
    [w EXCEPT
       !.year_expenses = RAdd(plan.expenses.baseline,
                              special_by_age(plan.expenses.special, age)),
       !.available = RSub(w.year_income,
                          RAdd(plan.expenses.baseline,
                               special_by_age(plan.expenses.special, age)))]

\* contrib = min(available, want), set aside until the end of the year
SetAside(w, field, want) ==
    [w EXCEPT ![field] = RMin(w.available, want),
              !.available = RSub(@, RMin(w.available, want))]

RothContributionAllowed_Always(plan, w) == TRUE

\* if year_income <= roth_income_limit
RothContributionAllowed(plan, w) ==
    \/ plan.income.roth_income_limit = Inf
    \/ RLe(w.year_income, plan.income.roth_income_limit)

\* pre-tax first, then Roth, then taxable
Contributions(plan, w, age) ==
    IF ~(age < plan.retire_age /\ RPos(w.available)) THEN w
    ELSE SetAside(
           IF RothContributionAllowed(plan, w)
           THEN SetAside(
                  SetAside(w, "pending_pre", plan.accounts.pre_tax.contribution),
                  "pending_roth",
                  IF plan.accounts.roth.max_out THEN w.roth_limit
                  ELSE plan.accounts.roth.contribution)
           ELSE SetAside(w, "pending_pre", plan.accounts.pre_tax.contribution),
           "pending_taxable", plan.accounts.taxable.contribution)

IncomeTax(plan, w) ==
    [w EXCEPT !.income_tax = RMul(w.year_income, plan.income.tax_rate),
              !.available = RSub(@, RMul(w.year_income, plan.income.tax_rate))]

\* the four draws of _cover_need; each gives the locals after the draw
CoverFromCash(w, take) ==
    [w EXCEPT !.cash = RSub(@, take),
              !.year_withdrawals = RAdd(@, take),
              !.cover_withdrawn = RAdd(@, take),
              !.need = RSub(@, take)]

CoverFromTaxable(w, gross, basis_used, cg_tax) ==
    [w EXCEPT !.taxable = RSub(@, gross),
              !.basis = RSub(@, basis_used),
              !.year_withdrawals = RAdd(@, gross),
              !.cover_withdrawn = RAdd(@, gross),
              !.realized_gains = RAdd(@, RSub(gross, basis_used)),
              !.withdraw_tax = IF RPos(cg_tax) THEN RAdd(@, cg_tax) ELSE @,
              !.need = IF RPos(cg_tax) THEN RAdd(RSub(@, gross), cg_tax)
                       ELSE RSub(@, gross)]

BasisUsed(w, gross) == RMul(gross, RDiv(w.basis, w.taxable))

CoverFromPreTax_Untaxed(w, gross, rate) ==
    [w EXCEPT !.pre_tax = RSub(@, gross),
              !.year_withdrawals = RAdd(@, gross),
              !.cover_withdrawn = RAdd(@, gross),
              !.pre_withdrawn = RAdd(@, gross),
              !.need = RSub(@, RMul(gross, RSub(One, rate)))]

CoverFromPreTax(w, gross, rate) ==
    [w EXCEPT !.pre_tax = RSub(@, gross),
              !.year_withdrawals = RAdd(@, gross),
              !.cover_withdrawn = RAdd(@, gross),
              !.pre_withdrawn = RAdd(@, gross),
              !.withdraw_tax = RAdd(@, RMul(gross, rate)),
              !.need = RSub(@, RMul(gross, RSub(One, rate)))]

CoverFromRoth(w, take) ==
    [w EXCEPT !.roth = RSub(@, take),
              !.year_withdrawals = RAdd(@, take),
              !.cover_withdrawn = RAdd(@, take),
              !.need = RSub(@, take)]

TaxableDraw(w, gross) ==
    CoverFromTaxable(w, gross, BasisUsed(w, gross),
        compute_capital_gains_tax(RSub(gross, BasisUsed(w, gross))))

\* no source is left for the loop of _cover_need: it reaches its break
CoverBreaks(w) ==
    /\ ~RPos(RMin(w.cash, w.need))
    /\ ~RPos(w.taxable)
    /\ ~RPos(w.pre_tax)
    /\ ~RPos(w.roth)

CoverExits_AfterCash(w) ==
    ~RGt(w.need, eps) \/ ~RPos(RMin(w.cash, w.need))

\* while need > 1e-9 fails, or break
CoverExits(w) == ~RGt(w.need, eps) \/ CoverBreaks(w)

\* one iteration of the loop up to its continue: cash, else taxable, else
\* pre-tax, else Roth
CoverIteration(plan, w) ==
    IF RPos(RMin(w.cash, w.need))
    THEN CoverFromCash(w, RMin(w.cash, w.need))
    ELSE IF RPos(w.taxable)
    THEN TaxableDraw(w, RMin(w.taxable, w.need))
    ELSE IF RPos(w.pre_tax)
    THEN CoverFromPreTax(w,
             RMin(w.pre_tax, GrossUp(w.need, pre_tax_tax_rate(plan))),
             pre_tax_tax_rate(plan))
    ELSE CoverFromRoth(w, RMin(w.roth, w.need))

\* the loop of _cover_need on the need held in w.need
RECURSIVE cover_need(_, _)
cover_need(plan, w) ==
    IF CoverExits(w) THEN w ELSE cover_need(plan, CoverIteration(plan, w))

\* _cover_need(need): what it leaves uncovered is kept in cover_unmet
FinishCover(w) ==
    [w EXCEPT !.cover_unmet = RAdd(@, w.need), !.need = Zero]

CoverNeed(plan, w, need) ==
    FinishCover(cover_need(plan, [w EXCEPT !.need = need]))

AfterCover(w) == [w EXCEPT !.after_cover = CoverHeld(w)]

\* if available < 0: _cover_need(-available)
CoverDeficit(plan, w) ==
    IF RNegative(w.available)
    THEN AfterCover(CoverNeed(plan, [w EXCEPT !.at_cover = CoverHeld(w)],
                              RNeg(w.available)))
    ELSE w

\* if available > 0: the rest goes to cash
SweepToCash(w) ==
    IF RPos(w.available)
    THEN [w EXCEPT !.cash = RAdd(@, w.available), !.swept = w.available,
                   !.available = Zero]
    ELSE w

\* compute_state_tax takes (taxable_income, state, tax_tables); simulate_path
\* passes it filing_status=..., which raises TypeError
StateTax(plan, w) ==
    IF plan.state # "" THEN [w EXCEPT !.raised = TRUE] ELSE w

\* roth_limit grows for the "max out" option
GrowRothLimit(plan, w) ==
    IF plan.accounts.roth.max_out /\ ~w.raised
    THEN [w EXCEPT !.roth_limit =
             RMul(@, RAdd(One, Get(plan.accounts.roth.limit_growth, Zero)))]
    ELSE w

\* the loop body from the income to the Roth limit
BeginYear(plan, w, age) ==
    GrowRothLimit(plan,
      StateTax(plan,
        SweepToCash(
          CoverDeficit(plan,
            IncomeTax(plan,
              Contributions(plan,
                YearExpenses(plan, YearIncome(plan, w, age), age),
                age))))))

\* the generator: a fixed sequence of standard normal variates per seed, read
\* at the generator's position
ZTable == <<0, 1, -1, -1, -1, 0, 1, 1, -1, 0, 0, -1, 1, -1, 0, 1, 0>>
Variate(seed, pos) == ZTable[((seed * 5 + pos) % Len(ZTable)) + 1]

\* rng.normal(loc=mean, scale=stdev) at position pos
draw_return(mean, stdev, seed, pos) ==
    RAdd(mean, RMul(stdev, R(Variate(seed, pos))))

\* number of variates one year's returns consume
DrawsPerYear(plan) == IF plan.returns_correlated THEN 1 ELSE 3

\* 1 + return of the k-th account (0 pre-tax, 1 Roth, 2 taxable)
ReturnFactor(plan, acct, k, seed, pos) ==
    IF plan.returns_correlated
    THEN RAdd(RAdd(One, draw_return(plan.accounts.roth.mean_return,
                                    plan.accounts.roth.stdev_return,
                                    seed, pos)),
              RSub(acct.mean_return, plan.accounts.roth.mean_return))
    ELSE RAdd(One, draw_return(acct.mean_return, acct.stdev_return,
                               seed, pos + k))

\* returns, then the pending contributions at the end of the year
ApplyReturns(plan, w, seed, pos) ==
    [w EXCEPT
       !.pre_tax = RAdd(RMul(@, ReturnFactor(plan, plan.accounts.pre_tax, 0,
                                             seed, pos)),
                        w.pending_pre),
       !.roth = RAdd(RMul(@, ReturnFactor(plan, plan.accounts.roth, 1,
                                          seed, pos)),
                     w.pending_roth),
       !.taxable = RAdd(RMul(@, ReturnFactor(plan, plan.accounts.taxable, 2,
                                             seed, pos)),
                        w.pending_taxable),
       !.basis = RAdd(@, w.pending_taxable),
       !.at_returns = Held(w),
       !.growth = [NoGrowth EXCEPT
           !.pre_tax = ReturnFactor(plan, plan.accounts.pre_tax, 0, seed, pos),
           !.roth = ReturnFactor(plan, plan.accounts.roth, 1, seed, pos),
           !.taxable = ReturnFactor(plan, plan.accounts.taxable, 2, seed,
                                    pos)]]

\* gross_conv = max(0, min(decided, current pre-tax balance))
ConversionAmount(plan, w, age) ==
    RMax(Zero, RMin(decide_conversion(w.prior_pre_tax_balance, age,
                                      plan.roth_conversion),
                    w.pre_tax))

Convert_Withheld(plan, w, gross_conv, conv_tax) ==
    IF ~RPos(gross_conv)
    THEN [w EXCEPT !.gross_conv = gross_conv, !.conv_tax = conv_tax,
                   !.pre_at_conv = w.pre_tax]
    ELSE [w EXCEPT !.gross_conv = gross_conv, !.conv_tax = conv_tax,
                   !.pre_at_conv = w.pre_tax,
                   !.pre_tax = RSub(@, gross_conv),
                   !.roth = RAdd(@, RMax(Zero, RSub(gross_conv, conv_tax)))]

\* the conversion of gross_conv with conv_tax due
Convert(plan, w, gross_conv, conv_tax) ==
    IF ~RPos(gross_conv)
    THEN [w EXCEPT !.gross_conv = gross_conv, !.conv_tax = conv_tax,
                   !.pre_at_conv = w.pre_tax]
    ELSE IF plan.roth_conversion.pay_tax_from_taxable
    THEN [w EXCEPT !.gross_conv = gross_conv, !.conv_tax = conv_tax,
                   !.pre_at_conv = w.pre_tax,
                   !.taxable = RSub(@, conv_tax),
                   !.pre_tax = RSub(@, gross_conv),
                   !.roth = RAdd(@, gross_conv)]
    ELSE [w EXCEPT !.gross_conv = gross_conv, !.conv_tax = conv_tax,
                   !.pre_at_conv = w.pre_tax,
                   !.pre_tax = RSub(@, gross_conv),
                   !.roth = RAdd(@, RMax(Zero, RSub(gross_conv, conv_tax)))]

RothConversion(plan, w, age) ==
    [Convert(plan, w, ConversionAmount(plan, w, age),
             RMul(ConversionAmount(plan, w, age),
                  plan.roth_conversion.tax_rate))
       EXCEPT !.at_conv = Held(w)]

RmdDue_Late(plan, w, age) ==
    age > rmd_start_age(plan.birth_year) /\ RPos(w.pre_tax)

\* whether the forced distribution applies in this year
RmdDue(plan, w, age) ==
    age >= rmd_start_age(plan.birth_year) /\ RPos(w.pre_tax)

\* the forced distribution rmd_gross with net proceeds net_rmd against the
\* need of the year
Distribute(w, rmd_gross, rate, net_rmd, need0) ==
    [w EXCEPT
       !.rmd_gross = rmd_gross,
       !.pre_tax = RSub(@, rmd_gross),
       !.year_withdrawals = RAdd(@, rmd_gross),
       !.pre_withdrawn = RAdd(@, rmd_gross),
       !.withdraw_tax = RAdd(@, RMul(rmd_gross, rate)),
       !.cash_at_rmd = w.cash,
       !.cash = IF RGe(net_rmd, need0) THEN RAdd(@, RSub(net_rmd, need0))
                ELSE @,
       !.rmd_swept = IF RGe(net_rmd, need0) THEN RSub(net_rmd, need0)
                     ELSE Zero,
       !.need = IF RGe(net_rmd, need0) THEN Zero ELSE RSub(need0, net_rmd)]

RmdAmount(w, age) ==
    RMin(compute_rmd(w.prior_pre_tax_balance, age), w.pre_tax)

\* need = max(0, year_expenses), less the net proceeds of the distribution
TakeRmd(plan, w, age) ==
    IF RmdDue(plan, w, age)
    THEN Distribute(w, RmdAmount(w, age), pre_tax_tax_rate(plan),
                    RMul(RmdAmount(w, age),
                         RSub(One, pre_tax_tax_rate(plan))),
                    RMax(Zero, w.year_expenses))
    ELSE [w EXCEPT !.need = RMax(Zero, w.year_expenses)]

\* a draw of gross from the taxable account, taxed at rate_t
DrawTaxable(w, gross, rate_t) ==
    [w EXCEPT !.taxable = RSub(@, gross),
              !.need = RSub(@, RMul(gross, RSub(One, rate_t))),
              !.year_withdrawals = RAdd(@, gross),
              !.withdraw_tax = RAdd(@, RMul(gross, rate_t))]

\* a draw of gross from the pre-tax account, taxed at rate
DrawPreTax(w, gross, rate) ==
    [w EXCEPT !.pre_tax = RSub(@, gross),
              !.need = RSub(@, RMul(gross, RSub(One, rate))),
              !.year_withdrawals = RAdd(@, gross),
              !.pre_withdrawn = RAdd(@, gross),
              !.withdraw_tax = RAdd(@, RMul(gross, rate))]

\* gross = min(balance, need / (1 - rate) if rate < 1 else need)
TaxableGross(plan, w) ==
    RMin(w.taxable, GrossUp(w.need, taxable_tax_rate(plan)))

PreTaxGross(plan, w) ==
    RMin(w.pre_tax, GrossUp(w.need, pre_tax_tax_rate(plan)))

\* total_net = tax_bal * (1 - taxable_tax_rate) + pre_bal * (1 - rate)
TotalNet(plan, w) ==
    RAdd(RMul(w.taxable, RSub(One, taxable_tax_rate(plan))),
         RMul(w.pre_tax, RSub(One, pre_tax_tax_rate(plan))))

ProportionalTaxableGross_All(plan, w) ==
    RMin(w.taxable, GrossUp(w.need, taxable_tax_rate(plan)))

\* gross_taxable of the proportional rule
ProportionalTaxableGross(plan, w) ==
    RMin(w.taxable,
         GrossUp(RMul(w.need,
                      RDiv(RMul(w.taxable,
                                RSub(One, taxable_tax_rate(plan))),
                           TotalNet(plan, w))),
                 taxable_tax_rate(plan)))

\* the pre-tax part of the proportional rule; pre_bal is the balance before it
ProportionalPreTax(plan, w, pre_bal) ==
    DrawPreTax(w,
        GrossUp(RMin(RMul(pre_bal, RSub(One, pre_tax_tax_rate(plan))), w.need),
                pre_tax_tax_rate(plan)),
        pre_tax_tax_rate(plan))

StrategyProportional(plan, w) ==
    IF ~RPos(TotalNet(plan, w)) THEN w
    ELSE ProportionalPreTax(plan,
             DrawTaxable(w, ProportionalTaxableGross(plan, w),
                         taxable_tax_rate(plan)),
             w.pre_tax)

BracketLimit_IgnoresRmd(plan, w) ==
    RMax(Zero, plan.withdrawal_bracket.pre_tax_limit)

\* limit = max(0, pre_tax_limit - rmd_gross)
BracketLimit(plan, w) ==
    RMax(Zero, RSub(plan.withdrawal_bracket.pre_tax_limit, w.rmd_gross))

\* then the taxable account for the need that is left
ThenTaxable(plan, w) ==
    IF RPos(w.need)
    THEN DrawTaxable(w, TaxableGross(plan, w), taxable_tax_rate(plan)) ELSE w

StrategyTaxBracket(plan, w) ==
    ThenTaxable(plan,
        IF RPos(BracketLimit(plan, w)) /\ RPos(w.need)
        THEN DrawPreTax(w, RMin(PreTaxGross(plan, w), BracketLimit(plan, w)),
                        pre_tax_tax_rate(plan))
        ELSE w)

\* then the pre-tax account for the need that is left
ThenPreTax(plan, w) ==
    IF RPos(w.need)
    THEN DrawPreTax(w, PreTaxGross(plan, w), pre_tax_tax_rate(plan)) ELSE w

StrategyStandard_PreTaxFirst(plan, w) ==
    ThenTaxable(plan,
        DrawPreTax(w, PreTaxGross(plan, w), pre_tax_tax_rate(plan)))

\* the standard taxable-first rule
StrategyStandard(plan, w) ==
    ThenPreTax(plan,
        DrawTaxable(w, TaxableGross(plan, w), taxable_tax_rate(plan)))

Strategy_AlwaysBracket(plan, w) == StrategyTaxBracket(plan, w)

Strategy(plan, w) ==
    IF plan.withdrawal_strategy = "proportional"
    THEN StrategyProportional(plan, w)
    ELSE IF plan.withdrawal_strategy = "tax_bracket"
    THEN StrategyTaxBracket(plan, w)
    ELSE StrategyStandard(plan, w)

ThenRoth_Unrecorded(w) ==
    IF RPos(w.need)
    THEN [w EXCEPT !.roth = RSub(@, RMin(w.roth, w.need)),
                   !.need = RSub(@, RMin(w.roth, w.need))]
    ELSE w

\* roth is tapped after the chosen strategy
ThenRoth(w) ==
    IF RPos(w.need)
    THEN [w EXCEPT !.roth = RSub(@, RMin(w.roth, w.need)),
                   !.need = RSub(@, RMin(w.roth, w.need)),
                   !.year_withdrawals = RAdd(@, RMin(w.roth, w.need))]
    ELSE w

\* and cash last
ThenCash(w) ==
    IF RPos(w.need)
    THEN [w EXCEPT !.cash = RSub(@, RMin(w.cash, w.need)),
                   !.need = RSub(@, RMin(w.cash, w.need)),
                   !.year_withdrawals = RAdd(@, RMin(w.cash, w.need))]
    ELSE w

\* if need > 0: the strategy, then Roth, then cash
CoverRetirementNeed(plan, w) ==
    IF RPos(w.need)
    THEN ThenCash(ThenRoth(Strategy(plan, [w EXCEPT !.at_strategy = Held(w)])))
    ELSE w

\* withdrawals to cover retirement expenses
RetirementWithdrawals(plan, w, age) ==
    IF age < plan.retire_age THEN [w EXCEPT !.at_withdrawals = Held(w)]
    ELSE CoverRetirementNeed(plan,
             TakeRmd(plan, [w EXCEPT !.at_withdrawals = Held(w)], age))

NetWorth(w) == RAdd(RAdd(w.pre_tax, w.roth), RAdd(w.taxable, w.cash))

\* the ledger row of the year
LedgerRow(w, age) ==
    [ age |-> age,
      income |-> w.year_income,
      expenses |-> w.year_expenses,
      withdrawals |-> w.year_withdrawals,
      taxes |-> RAdd(RAdd(w.income_tax, w.conv_tax), w.withdraw_tax),
      roth_conversion |-> w.gross_conv,
      conversion_tax |-> w.conv_tax,
      pre_tax |-> w.pre_tax, roth |-> w.roth,
      taxable |-> w.taxable, cash |-> w.cash,
      net_worth |-> NetWorth(w) ]

\* what the year's locals held, kept beside the ledger row
YearObservation(w, age) ==
    [ age |-> age,
      prior_pre_tax_balance |-> w.prior_pre_tax_balance,
      pre_at_conv |-> w.pre_at_conv,
      pre_withdrawn |-> w.pre_withdrawn,
      cover_withdrawn |-> w.cover_withdrawn,
      rmd_gross |-> w.rmd_gross,
      rmd_swept |-> w.rmd_swept,
      cash_at_rmd |-> w.cash_at_rmd,
      swept |-> w.swept,
      contributed |-> RAdd(RAdd(RAdd(w.pending_pre, w.pending_roth),
                                w.pending_taxable),
                           w.split_contributed),
      cover_unmet |-> w.cover_unmet,
      unmet |-> w.need,
      pending_pre |-> w.pending_pre, pending_roth |-> w.pending_roth,
      pending_taxable |-> w.pending_taxable, paid |-> w.paid,
      income_tax |-> w.income_tax,
      at_returns |-> w.at_returns, growth |-> w.growth,
      at_conv |-> w.at_conv, at_withdrawals |-> w.at_withdrawals,
      at_strategy |-> w.at_strategy,
      at_cover |-> w.at_cover, after_cover |-> w.after_cover,
      basis |-> w.basis ]

-----------------------------------------------------------------------------
(* _simulate_path_split, the 401k/IRA accounts: the same year loop on the   *)
(* split working copies.                                                   *)

\* annual caps of an account without a contribution schedule
limit_401k == R(23)
limit_ira == R(7)

SplitKeys == {"pre_tax_401k", "pre_tax_ira", "roth_401k", "roth_ira"}

\* any(k in acc for k in [...]) of simulate_path
IsSplit(plan) == \E k \in SplitKeys : plan.accounts[k].present

InitPathSplit(plan) ==
    [InitPath(plan) EXCEPT
       !.pre_tax = Zero, !.roth = Zero, !.roth_limit = Zero,
       !.basis = Zero,
       !.pre_tax_401k = plan.accounts.pre_tax_401k.balance,
       !.pre_tax_ira = plan.accounts.pre_tax_ira.balance,
       !.roth_401k = plan.accounts.roth_401k.balance,
       !.roth_ira = plan.accounts.roth_ira.balance]

PreTaxBalance(w) == RAdd(w.pre_tax_401k, w.pre_tax_ira)
RothBalance(w) == RAdd(w.roth_401k, w.roth_ira)

\* what the split working copies hold, with the totals of the pre-tax and
\* Roth accounts
SplitHeld(w) ==
    [Held(w) EXCEPT !.pre_tax = PreTaxBalance(w), !.roth = RothBalance(w)]

\* take = min(first, amount) from the first account, the rest from the second
TakeFromTwo(w, first, second, amount) ==
    [w EXCEPT
       ![first] = RSub(@, RMin(w[first], amount)),
       ![second] = IF RPos(RSub(amount, RMin(w[first], amount)))
                   THEN RSub(@, RSub(amount, RMin(w[first], amount)))
                   ELSE @]

take_from_pre_tax(w, gross) ==
    TakeFromTwo(w, "pre_tax_401k", "pre_tax_ira", gross)

take_from_roth(w, amount) ==
    TakeFromTwo(w, "roth_401k", "roth_ira", amount)

\* sched.get(age, 0.0) on the schedule's <<age, amount>> entries
RECURSIVE schedule_get(_, _)
schedule_get(sched, age) ==
    IF sched = <<>> THEN Zero
    ELSE IF Head(sched)[1] = age THEN Head(sched)[2]
    ELSE schedule_get(Tail(sched), age)

contribution_for_age(acct, age) ==
    IF acct.contribution_schedule # <<>>
    THEN schedule_get(acct.contribution_schedule, age)
    ELSE acct.contribution

\* no salary-independent income: the benefit is not part of this loop
SplitYearIncome(plan, w, age) ==
    [YearIncome(plan, w, age) EXCEPT
       !.prior_pre_tax_balance = PreTaxBalance(w),
       !.year_income = IF age < plan.retire_age THEN w.salary ELSE Zero,
       !.split_contributed = Zero]

\* the contribution goes into the balance at once
PayIn(w, field, contrib) ==
    [w EXCEPT ![field] = RAdd(@, contrib),
              !.available = RSub(@, contrib),
              !.split_contributed = RAdd(@, contrib),
              !.paid[field] = contrib]

ContributeTo_Uncapped(w, field, acct, age, limit) ==
    PayIn(w, field, RMin(w.available, contribution_for_age(acct, age)))

\* contrib = min(available, want, cap), cap = want if scheduled else limit
ContributeTo(w, field, acct, age, limit) ==
    PayIn(w, field,
          RMin(w.available,
               RMin(contribution_for_age(acct, age),
                    IF acct.contribution_schedule # <<>>
                    THEN contribution_for_age(acct, age) ELSE limit)))

ContributeRothIra(plan, w, age) ==
    IF RothContributionAllowed(plan, w)
    THEN ContributeTo(w, "roth_ira", plan.accounts.roth_ira, age, limit_ira)
    ELSE w

ContributeTaxable(plan, w, age) ==
    PayIn(w, "taxable",
          RMin(w.available, contribution_for_age(plan.accounts.taxable, age)))

\* pre-tax 401k, Roth 401k, pre-tax IRA, Roth IRA, taxable
SplitContributions(plan, w, age) ==
    IF ~(age < plan.retire_age /\ RPos(w.available)) THEN w
    ELSE ContributeTaxable(plan,
           ContributeRothIra(plan,
             ContributeTo(
               ContributeTo(
                 ContributeTo(w, "pre_tax_401k", plan.accounts.pre_tax_401k,
                              age, limit_401k),
                 "roth_401k", plan.accounts.roth_401k, age, limit_401k),
               "pre_tax_ira", plan.accounts.pre_tax_ira, age, limit_ira),
             age),
           age)

\* take from cash or taxable: no tax
SplitTake(w, field, take) ==
    [w EXCEPT ![field] = RSub(@, take),
              !.need = RSub(@, take),
              !.year_withdrawals = RAdd(@, take)]

SplitDrawPreTax(w, gross, rate) ==
    [take_from_pre_tax(w, gross) EXCEPT
       !.need = RSub(@, RMul(gross, RSub(One, rate))),
       !.year_withdrawals = RAdd(@, gross),
       !.pre_withdrawn = RAdd(@, gross),
       !.withdraw_tax = RAdd(@, RMul(gross, rate))]

SplitDrawRoth(w, take) ==
    [take_from_roth(w, take) EXCEPT
       !.need = RSub(@, take),
       !.year_withdrawals = RAdd(@, take)]

SplitPreTaxGross(plan, w) ==
    RMin(PreTaxBalance(w), GrossUp(w.need, pre_tax_tax_rate(plan)))

SplitThenTaxable(w) ==
    IF RPos(w.need) THEN SplitTake(w, "taxable", RMin(w.taxable, w.need))
    ELSE w

SplitThenPreTax(plan, w) ==
    IF RPos(w.need)
    THEN SplitDrawPreTax(w, SplitPreTaxGross(plan, w), pre_tax_tax_rate(plan))
    ELSE w

SplitThenRoth(w) ==
    IF RPos(w.need) THEN SplitDrawRoth(w, RMin(RothBalance(w), w.need)) ELSE w

SplitThenCash(w) ==
    IF RPos(w.need) THEN SplitTake(w, "cash", RMin(w.cash, w.need)) ELSE w

SplitCoverHeld(w) ==
    [CoverHeld(w) EXCEPT !.pre_tax = PreTaxBalance(w),
                         !.roth = RothBalance(w)]

SplitAfterCover(w) == [w EXCEPT !.after_cover = SplitCoverHeld(w)]

\* what the deficit cover drew is kept in cover_withdrawn
NoteCover(w, before) ==
    [w EXCEPT !.cover_withdrawn = RSub(w.year_withdrawals, before)]

\* if available < 0: cash, then taxable, then pre-tax, then Roth
SplitCoverDeficit(plan, w) ==
    IF RNegative(w.available)
    THEN SplitAfterCover(
           FinishCover(
             NoteCover(
               SplitThenRoth(
                 SplitThenPreTax(plan,
                   SplitThenTaxable(
                     SplitTake([w EXCEPT !.need = RNeg(w.available),
                                         !.at_cover = SplitCoverHeld(w)],
                               "cash", RMin(w.cash, RNeg(w.available)))))),
               w.year_withdrawals)))
    ELSE w

SplitBeginYear(plan, w, age) ==
    SweepToCash(
      SplitCoverDeficit(plan,
        IncomeTax(plan,
          SplitContributions(plan,
            YearExpenses(plan, SplitYearIncome(plan, w, age), age),
            age))))

SplitDrawsPerYear(plan) == IF plan.returns_correlated THEN 1 ELSE 5

\* correlated: rdraw from (0.06, 0.12), 1 + rdraw + (mean - 0.06)
SplitReturnFactor(plan, acct, k, seed, pos) ==
    IF plan.returns_correlated
    THEN RAdd(RAdd(One, draw_return(Q(6, 100), Q(12, 100), seed, pos)),
              RSub(acct.mean_return, Q(6, 100)))
    ELSE RAdd(One, draw_return(acct.mean_return, acct.stdev_return,
                               seed, pos + k))

SplitApplyReturns(plan, w, seed, pos) ==
    [w EXCEPT
       !.pre_tax_401k = RMul(@, SplitReturnFactor(plan,
                                 plan.accounts.pre_tax_401k, 0, seed, pos)),
       !.pre_tax_ira = RMul(@, SplitReturnFactor(plan,
                                plan.accounts.pre_tax_ira, 1, seed, pos)),
       !.roth_401k = RMul(@, SplitReturnFactor(plan,
                              plan.accounts.roth_401k, 2, seed, pos)),
       !.roth_ira = RMul(@, SplitReturnFactor(plan,
                             plan.accounts.roth_ira, 3, seed, pos)),
       !.taxable = RMul(@, SplitReturnFactor(plan,
                            plan.accounts.taxable, 4, seed, pos)),
       !.at_returns = SplitHeld(w),
       !.growth = [NoGrowth EXCEPT
           !.pre_tax_401k = SplitReturnFactor(plan,
                                plan.accounts.pre_tax_401k, 0, seed, pos),
           !.pre_tax_ira = SplitReturnFactor(plan,
                               plan.accounts.pre_tax_ira, 1, seed, pos),
           !.roth_401k = SplitReturnFactor(plan,
                             plan.accounts.roth_401k, 2, seed, pos),
           !.roth_ira = SplitReturnFactor(plan,
                            plan.accounts.roth_ira, 3, seed, pos),
           !.taxable = SplitReturnFactor(plan,
                           plan.accounts.taxable, 4, seed, pos)]]

SplitConversionAmount(plan, w, age) ==
    RMax(Zero, RMin(decide_conversion(w.prior_pre_tax_balance, age,
                                      plan.roth_conversion),
                    PreTaxBalance(w)))

SplitConvert(plan, w, gross_conv, conv_tax) ==
    IF ~RPos(gross_conv)
    THEN [w EXCEPT !.gross_conv = gross_conv, !.conv_tax = conv_tax,
                   !.pre_at_conv = PreTaxBalance(w)]
    ELSE IF plan.roth_conversion.pay_tax_from_taxable
    THEN [take_from_pre_tax(w, gross_conv) EXCEPT
            !.gross_conv = gross_conv, !.conv_tax = conv_tax,
            !.pre_at_conv = PreTaxBalance(w),
            !.taxable = RSub(@, conv_tax),
            !.roth_ira = RAdd(@, gross_conv)]
    ELSE [take_from_pre_tax(w, gross_conv) EXCEPT
            !.gross_conv = gross_conv, !.conv_tax = conv_tax,
            !.pre_at_conv = PreTaxBalance(w),
            !.roth_ira = RAdd(@, RMax(Zero, RSub(gross_conv, conv_tax)))]

SplitRothConversion(plan, w, age) ==
    [SplitConvert(plan, w, SplitConversionAmount(plan, w, age),
                  RMul(SplitConversionAmount(plan, w, age),
                       plan.roth_conversion.tax_rate))
       EXCEPT !.at_conv = SplitHeld(w)]

SplitRmdDue(plan, w, age) ==
    age >= rmd_start_age(plan.birth_year) /\ RPos(PreTaxBalance(w))

SplitDistribute(w, rmd_gross, rate, net_rmd, need0) ==
    [take_from_pre_tax(w, rmd_gross) EXCEPT
       !.rmd_gross = rmd_gross,
       !.year_withdrawals = RAdd(@, rmd_gross),
       !.pre_withdrawn = RAdd(@, rmd_gross),
       !.withdraw_tax = RAdd(@, RMul(rmd_gross, rate)),
       !.cash_at_rmd = w.cash,
       !.cash = IF RGe(net_rmd, need0) THEN RAdd(@, RSub(net_rmd, need0))
                ELSE @,
       !.rmd_swept = IF RGe(net_rmd, need0) THEN RSub(net_rmd, need0)
                     ELSE Zero,
       !.need = IF RGe(net_rmd, need0) THEN Zero ELSE RSub(need0, net_rmd)]

SplitRmdAmount(w, age) ==
    RMin(compute_rmd(w.prior_pre_tax_balance, age), PreTaxBalance(w))

SplitTakeRmd(plan, w, age) ==
    IF SplitRmdDue(plan, w, age)
    THEN SplitDistribute(w, SplitRmdAmount(w, age), pre_tax_tax_rate(plan),
                         RMul(SplitRmdAmount(w, age),
                              RSub(One, pre_tax_tax_rate(plan))),
                         RMax(Zero, w.year_expenses))
    ELSE [w EXCEPT !.need = RMax(Zero, w.year_expenses)]

\* total_net = tax_bal + pre_bal * (1 - rate)
SplitTotalNet(plan, w) ==
    RAdd(w.taxable, RMul(PreTaxBalance(w), RSub(One, pre_tax_tax_rate(plan))))

SplitProportionalPreTax(plan, w, pre_bal) ==
    SplitDrawPreTax(w,
        GrossUp(RMin(RMul(pre_bal, RSub(One, pre_tax_tax_rate(plan))), w.need),
                pre_tax_tax_rate(plan)),
        pre_tax_tax_rate(plan))

SplitStrategyProportional(plan, w) ==
    IF ~RPos(SplitTotalNet(plan, w)) THEN w
    ELSE SplitProportionalPreTax(plan,
             SplitTake(w, "taxable",
                 RMin(w.taxable,
                      RMul(w.need, RDiv(w.taxable, SplitTotalNet(plan, w))))),
             PreTaxBalance(w))

SplitStrategyTaxBracket(plan, w) ==
    SplitThenTaxable(
        IF RPos(BracketLimit(plan, w)) /\ RPos(w.need)
        THEN SplitDrawPreTax(w, RMin(SplitPreTaxGross(plan, w),
                                     BracketLimit(plan, w)),
                             pre_tax_tax_rate(plan))
        ELSE w)

SplitStrategyStandard(plan, w) ==
    SplitThenPreTax(plan, SplitTake(w, "taxable", RMin(w.taxable, w.need)))

SplitStrategy(plan, w) ==
    IF plan.withdrawal_strategy = "proportional"
    THEN SplitStrategyProportional(plan, w)
    ELSE IF plan.withdrawal_strategy = "tax_bracket"
    THEN SplitStrategyTaxBracket(plan, w)
    ELSE SplitStrategyStandard(plan, w)

SplitCoverRetirementNeed(plan, w) ==
    IF RPos(w.need)
    THEN SplitThenCash(SplitThenRoth(
             SplitStrategy(plan, [w EXCEPT !.at_strategy = SplitHeld(w)])))
    ELSE w

SplitRetirementWithdrawals(plan, w, age) ==
    IF age < plan.retire_age THEN [w EXCEPT !.at_withdrawals = SplitHeld(w)]
    ELSE SplitCoverRetirementNeed(plan,
             SplitTakeRmd(plan, [w EXCEPT !.at_withdrawals = SplitHeld(w)],
                          age))

\* total_pre and total_roth stand in the ledger's pre_tax and roth columns
SplitTotals(w) ==
    [w EXCEPT !.pre_tax = PreTaxBalance(w), !.roth = RothBalance(w)]

-----------------------------------------------------------------------------
(* simulate_path: the merged loop, or the split one when the plan names a  *)
(* 401k or IRA account.                                                    *)

StartPath(plan) ==
    IF IsSplit(plan) THEN InitPathSplit(plan) ELSE InitPath(plan)

PathBeginYear(plan, w, age) ==
    IF IsSplit(plan) THEN SplitBeginYear(plan, w, age)
    ELSE BeginYear(plan, w, age)

PathDraws(plan) ==
    IF IsSplit(plan) THEN SplitDrawsPerYear(plan) ELSE DrawsPerYear(plan)

PathReturns(plan, w, seed, pos) ==
    IF IsSplit(plan) THEN SplitApplyReturns(plan, w, seed, pos)
    ELSE ApplyReturns(plan, w, seed, pos)

PathConversion(plan, w, age) ==
    IF IsSplit(plan) THEN SplitRothConversion(plan, w, age)
    ELSE RothConversion(plan, w, age)

PathWithdrawals(plan, w, age) ==
    IF IsSplit(plan) THEN SplitRetirementWithdrawals(plan, w, age)
    ELSE RetirementWithdrawals(plan, w, age)

\* the balances the bookkeeping reads
Balances(plan, w) == IF IsSplit(plan) THEN SplitTotals(w) ELSE w

-----------------------------------------------------------------------------
(* simulate: the aggregation over the paths.                               *)

RECURSIVE InsertSorted(_, _)
InsertSorted(x, sorted) ==
    IF sorted = <<>> THEN <<x>>
    ELSE IF RLe(x, Head(sorted)) THEN <<x>> \o sorted
    ELSE <<Head(sorted)>> \o InsertSorted(x, Tail(sorted))

RECURSIVE SortRat(_)
SortRat(xs) == IF xs = <<>> THEN <<>> ELSE InsertSorted(Head(xs), SortRat(Tail(xs)))

\* np.percentile(xs, q): linear interpolation between the order statistics
Percentile(xs, q) ==
    LET n == Len(xs)
        sorted == SortRat(xs)
        lo == (q * (n - 1)) \div 100
        frac == Q((q * (n - 1)) % 100, 100)
    IN  IF lo + 1 >= n THEN sorted[n]
        ELSE RAdd(sorted[lo + 1],
                  RMul(frac, RSub(sorted[lo + 2], sorted[lo + 1])))

Median(xs) == Percentile(xs, 50)

RAbs(a) == <<Abs(a[1]), a[2]>>

ArgMin_Last(xs) == Len(xs)

\* np.argmin: the first index of a smallest element
ArgMin(xs) ==
    CHOOSE i \in 1..Len(xs) :
        /\ \A j \in 1..Len(xs) : RLe(xs[i], xs[j])
        /\ \A j \in 1..(i - 1) : RLt(xs[i], xs[j])

CountSuccess_Strict(terminal) ==
    Cardinality({i \in 1..Len(terminal) : RGt(terminal[i], Zero)})

\* number of paths with terminal >= 0.0
CountSuccess(terminal) ==
    Cardinality({i \in 1..Len(terminal) : RGe(terminal[i], Zero)})

\* the result mapping of simulate; paths is the list of path results
Aggregate(paths) ==
    LET n == Len(paths)
        years == Len(paths[1].net_worth)
        column(y) == [i \in 1..n |-> paths[i].net_worth[y]]
        terminal == column(years)
        median_idx == ArgMin([i \in 1..n |->
                                 RAbs(RSub(terminal[i], Median(terminal)))])
    IN  [ success_probability |-> Q(CountSuccess(terminal), n),
          p10 |-> [y \in 1..years |-> Percentile(column(y), 10)],
          p50 |-> [y \in 1..years |-> Percentile(column(y), 50)],
          p90 |-> [y \in 1..years |-> Percentile(column(y), 90)],
          median_terminal |-> Median(terminal),
          median_idx |-> median_idx,
          ledger_median |-> paths[median_idx].ledger ]

-----------------------------------------------------------------------------
(* simulate as a function of its arguments, for comparing calls on           *)
(* different plans.                                                         *)

NetWorthSeries(l) == [y \in 1..Len(l) |-> l[y].net_worth]

\* one pass of the loop body of simulate_path
YearOf(p, ww, a, s, pos) ==
    PathWithdrawals(p,
        PathConversion(p, PathReturns(p, PathBeginYear(p, ww, a), s, pos), a),
        a)

RECURSIVE simulate_path(_, _, _, _, _)
RowsFrom(p, w1, a, s, pos) ==
    <<LedgerRow(Balances(p, w1), a)>>
        \o simulate_path(p, w1, a + 1, s, pos + PathDraws(p))

\* the ledger rows of simulate_path from age a on, with the locals ww and the
\* generator of seed s at position pos
simulate_path(p, ww, a, s, pos) ==
    IF a > p.end_age THEN <<>>
    ELSE RowsFrom(p, YearOf(p, ww, a, s, pos), a, s, pos)

PathResult(l) == [net_worth |-> NetWorthSeries(l), ledger |-> l]

\* simulate(plan, n_paths, seed): path i starts where path i - 1 left the
\* generator
simulate_paths(p, n, s) ==
    [i \in 1..n |->
        PathResult(simulate_path(p, StartPath(p), p.current_age, s,
            (i - 1) * (p.end_age - p.current_age + 1) * PathDraws(p)))]

simulate(p, n, s) == Aggregate(simulate_paths(p, n, s))

-----------------------------------------------------------------------------
(* The plans the model is run on.  Money is in units of $1,000.            *)

MaxYears == 2      \* simulated years per path: end_age - current_age + 1
MaxPaths == 2      \* n_paths
NumSeeds == 2      \* seeds 0 .. NumSeeds - 1
MaxCalls == 2      \* calls of simulate on the same plan, n_paths and seed

Account(balance, contribution, stdev, rate) ==
    [ balance |-> balance, contribution |-> contribution,
      mean_return |-> Zero, stdev_return |-> stdev,
      withdrawal_tax_rate |-> rate, basis |-> None,
      max_out |-> FALSE, annual_limit |-> None, limit_growth |-> None,
      present |-> TRUE, contribution_schedule |-> <<>> ]

\* a key the accounts mapping does not have
Absent == [Account(Zero, Zero, Zero, None) EXCEPT !.present = FALSE]

NoConversion ==
    [ present |-> FALSE, annual_cap |-> Zero, start_age |-> 0, end_age |-> 0,
      tax_rate |-> Zero, pay_tax_from_taxable |-> TRUE ]

BasePlan ==
    [ current_age |-> 65, retire_age |-> 65, end_age |-> 65,
      birth_year |-> 1960, state |-> "", filing_status |-> "single",
      accounts |-> [ pre_tax |-> Account(Zero, Zero, Zero, Zero),
                     roth |-> Account(Zero, Zero, Zero, None),
                     taxable |-> Account(Zero, Zero, Zero, None),
                     cash |-> [balance |-> Zero],
                     pre_tax_401k |-> Absent, pre_tax_ira |-> Absent,
                     roth_401k |-> Absent, roth_ira |-> Absent ],
      income |-> [ salary |-> Zero, salary_growth |-> Zero, tax_rate |-> Zero,
                   roth_income_limit |-> Inf ],
      expenses |-> [ baseline |-> Zero, special |-> <<>> ],
      returns_correlated |-> TRUE,
      roth_conversion |-> NoConversion,
      withdrawal_strategy |-> "standard",
      withdrawal_bracket |-> [ pre_tax_limit |-> Zero ],
      social_security |-> [ PIA |-> Zero, claim_age |-> 67 ],
      missing |-> {} ]     \* the keys the plan mapping does not hold

Horizon(curr) == curr .. (curr + MaxYears - 1)

\* retirees of 65 drawing $50,000 a year under each withdrawal strategy
RetiredPlans ==
    { [BasePlan EXCEPT
         !.end_age = e,
         !.accounts.pre_tax = Account(R(pre), Zero, Zero, rate),
         !.accounts.taxable = Account(R(tax), Zero, Zero, None),
         !.accounts.roth = Account(R(rc[1]), Zero, Zero, None),
         !.accounts.cash.balance = R(rc[2]),
         !.expenses.baseline = R(50),
         !.withdrawal_strategy = strat,
         !.withdrawal_bracket.pre_tax_limit = R(25)] :
      e \in Horizon(65), pre \in {0, 100}, tax \in {0, 50},
      rc \in {<<0, 0>>, <<20, 10>>}, rate \in {Zero, Q(1, 5)},
      strat \in {"standard", "proportional", "tax_bracket"} }

\* savers of 64 with a salary, contributions and $30,000 expenses
WorkingPlans ==
    { [BasePlan EXCEPT
         !.current_age = 64, !.end_age = e, !.retire_age = ret,
         !.accounts.pre_tax = Account(R(bal[2]), R(20), Zero, prate),
         !.accounts.roth = Account(Zero, R(6), Zero, None),
         !.accounts.taxable = Account(R(bal[1]), R(5), Zero, None),
         !.income.salary = R(sal), !.income.tax_rate = itr,
         !.income.roth_income_limit = lim,
         !.expenses.baseline = R(30)] :
      e \in Horizon(64), ret \in {65, 66}, sal \in {20, 50, 60},
      itr \in {Zero, Q(1, 5)}, bal \in {<<0, 0>>, <<7, 5>>},
      lim \in {Inf, R(55)}, prate \in {Zero, Q(1, 4)} }

\* savers whose Roth account is set to "max out" a growing annual limit
MaxOutPlans ==
    { [BasePlan EXCEPT
         !.current_age = 64, !.end_age = e, !.retire_age = 66,
         !.accounts.pre_tax = Account(Zero, R(pre), Zero, Q(1, 4)),
         !.accounts.roth =
             [Account(Zero, Zero, Zero, None) EXCEPT
                !.max_out = TRUE, !.annual_limit = R(6),
                !.limit_growth = Q(1, 10)],
         !.income.salary = R(sal),
         !.expenses.baseline = R(30)] :
      e \in Horizon(64), pre \in {0, 20}, sal \in {40, 50, 60} }

Conversions ==
    {NoConversion} \cup
    { [ present |-> TRUE, annual_cap |-> cap, start_age |-> win[1],
        end_age |-> win[2], tax_rate |-> Q(1, 5),
        pay_tax_from_taxable |-> pay ] :
      cap \in {Q(1, 2), One}, win \in {<<64, 64>>, <<65, 66>>},
      pay \in BOOLEAN }

\* <<stdev_return of every account, returns_correlated>>
ReturnModes == {<<Zero, TRUE>>, <<One, TRUE>>, <<One, FALSE>>}

\* holders of a $100,000 pre-tax account under a Roth conversion policy
ConversionPlans ==
    { [BasePlan EXCEPT
         !.current_age = 64, !.end_age = e, !.retire_age = 66,
         !.accounts.pre_tax = Account(R(100), Zero, rm[1], Q(1, 5)),
         !.accounts.roth = Account(Zero, Zero, rm[1], None),
         !.accounts.taxable = Account(R(tax), Zero, rm[1], None),
         !.returns_correlated = rm[2],
         !.roth_conversion = conv] :
      e \in Horizon(64), tax \in {0, 50}, rm \in ReturnModes,
      conv \in Conversions }

\* people of 74 around the age at which distributions are required
RmdPlans ==
    { [BasePlan EXCEPT
         !.current_age = 74, !.end_age = e, !.retire_age = ret,
         !.birth_year = born,
         !.accounts.pre_tax = Account(R(100), Zero, rm[1], rate),
         !.accounts.roth = Account(Zero, Zero, rm[1], None),
         !.accounts.taxable = Account(Zero, Zero, rm[1], None),
         !.returns_correlated = rm[2],
         !.expenses.baseline = R(exp),
         !.withdrawal_strategy = strat,
         !.withdrawal_bracket.pre_tax_limit = R(25)] :
      e \in Horizon(74), ret \in {74, 76}, born \in {1950, 1960},
      exp \in {0, 50}, rate \in {Zero, Q(1, 5)},
      rm \in {<<Zero, TRUE>>, <<One, TRUE>>},
      strat \in {"standard", "tax_bracket"} }

\* plans that name a state
StatePlans ==
    { [BasePlan EXCEPT !.end_age = e, !.state = "MI",
                       !.accounts.pre_tax.balance = R(100)] :
      e \in Horizon(65) }

\* people of 66 with a Social Security benefit of $2,000 a month claimed at
\* 66 or 67, holding merged or 401k/IRA accounts
SocialSecurityPlans ==
    { [BasePlan EXCEPT
         !.current_age = 66, !.end_age = e, !.retire_age = ret,
         !.accounts.pre_tax_401k = k, !.accounts.pre_tax_ira = k,
         !.accounts.roth_401k = k, !.accounts.roth_ira = k,
         !.income.salary = R(50),
         !.expenses.baseline = R(30),
         !.social_security = [PIA |-> R(2), claim_age |-> claim]] :
      e \in Horizon(66), ret \in {66, 68}, claim \in {66, 67},
      k \in {Absent, Account(Zero, Zero, Zero, None)} }

\* one policy for the split plans: half of the prior balance at 64 and 65
SplitConversion ==
    [ present |-> TRUE, annual_cap |-> Q(1, 2), start_age |-> 64,
      end_age |-> 65, tax_rate |-> Q(1, 5), pay_tax_from_taxable |-> TRUE ]

Scheduled(acct, sched) == [acct EXCEPT !.contribution_schedule = sched]

\* holders of 401k and IRA accounts who are curr years old
SplitPlansOf(curr) ==
    { [BasePlan EXCEPT
         !.current_age = curr, !.end_age = e, !.retire_age = ret,
         !.birth_year = 1950,
         !.accounts.pre_tax.withdrawal_tax_rate = Q(1, 5),
         !.accounts.pre_tax_401k = Account(R(60), R(10), Zero, None),
         !.accounts.pre_tax_ira = Account(R(40), R(3), Zero, None),
         !.accounts.roth_401k = Account(Zero, R(2), Zero, None),
         !.accounts.roth_ira =
             Scheduled(Account(R(10), Zero, Zero, None),
                       <<<<curr, R(4)>>, <<curr + 1, R(1)>>>>),
         !.accounts.taxable = Account(R(20), R(5), Zero, None),
         !.accounts.cash.balance = R(5),
         !.income.salary = R(50),
         !.expenses.baseline = R(30),
         !.returns_correlated = corr,
         !.roth_conversion = conv,
         !.withdrawal_strategy = strat,
         !.withdrawal_bracket.pre_tax_limit = R(25)] :
      e \in Horizon(curr), ret \in {curr, curr + 1},
      corr \in BOOLEAN, conv \in {NoConversion, SplitConversion},
      strat \in {"standard", "proportional", "tax_bracket"} }

\* the proportional rule on correlated split returns (factors 1 +- 0.12 a
\* year) forms quotients beyond the 32-bit integers of TLC: those plans are
\* run with independent returns
SplitPlans ==
    { p \in SplitPlansOf(64) \cup SplitPlansOf(74) :
        ~(p.returns_correlated /\ p.withdrawal_strategy = "proportional") }

\* savers whose flat 401k and IRA contributions exceed the annual caps, with
\* and without an income limit for the Roth IRA
CappedPlans ==
    { [BasePlan EXCEPT
         !.current_age = 64, !.end_age = e, !.retire_age = 66,
         !.birth_year = 1950,
         !.accounts.pre_tax_401k = Account(Zero, R(30), Zero, None),
         !.accounts.pre_tax_ira = Account(Zero, R(10), Zero, None),
         !.accounts.roth_401k = Account(Zero, Zero, Zero, None),
         !.accounts.roth_ira = Account(Zero, R(4), Zero, None),
         !.accounts.taxable = Account(Zero, R(5), Zero, None),
         !.income.salary = R(80),
         !.income.roth_income_limit = lim,
         !.expenses.baseline = R(30)] :
      e \in Horizon(64), lim \in {Inf, R(60)} }

Special(age, amount) == [age |-> age, amount |-> R(amount)]

\* expenses.special: one record, records for two ages, two records for one
\* age, a record for an age that is not simulated
SpecialLists ==
    { <<Special(65, 3)>>, <<Special(65, 3), Special(66, 4)>>,
      <<Special(65, 3), Special(65, 4)>>, <<Special(90, 9)>> }

\* retirees of 65 with $100,000, merged or 401k/IRA accounts, $10,000
\* expenses a year and one-off expenses
SpecialPlans ==
    { [BasePlan EXCEPT
         !.end_age = e,
         !.accounts.pre_tax_401k = a, !.accounts.pre_tax_ira = a,
         !.accounts.roth_401k = a, !.accounts.roth_ira = a,
         !.accounts.taxable = Account(R(100), Zero, Zero, None),
         !.expenses.baseline = R(10),
         !.expenses.special = sp] :
      e \in Horizon(65), sp \in SpecialLists,
      a \in {Absent, Account(Zero, Zero, Zero, None)} }

\* the keys both loops read with plan[...]
AgeKeys == {"current_age", "end_age", "retire_age"}

\* plans of a retiree with $100,000, with merged or 401k/IRA accounts, that
\* lack one of the age keys
IncompletePlans ==
    { [BasePlan EXCEPT
         !.current_age = IF k = "current_age" THEN 0 ELSE 65,
         !.end_age = IF k = "end_age" THEN 0 ELSE 65,
         !.retire_age = IF k = "retire_age" THEN 0 ELSE 65,
         !.accounts.pre_tax_401k = a, !.accounts.pre_tax_ira = a,
         !.accounts.roth_401k = a, !.accounts.roth_ira = a,
         !.accounts.taxable.balance = R(100),
         !.missing = {k}] :
      k \in AgeKeys, a \in {Absent, Account(Zero, Zero, Zero, None)} }

Plans == RetiredPlans \cup WorkingPlans \cup ConversionPlans \cup RmdPlans
         \cup StatePlans \cup SplitPlans \cup MaxOutPlans
         \cup SocialSecurityPlans \cup IncompletePlans \cup CappedPlans
         \cup SpecialPlans

-----------------------------------------------------------------------------
(* The state machine: simulate(plan, n_paths, seed), called MaxCalls times. *)

VARIABLES
    plan,       \* the caller's plan mapping
    plan0,      \* the plan as the caller built it
    n_paths,    \* argument of simulate
    seed,       \* argument of simulate
    pc,         \* "idle", "begin", "returns", "convert", "withdraw",
                \* "aggregate", "raised"
    rngPos,     \* position of the generator made by default_rng(seed)
    pathNo,     \* index of the path being simulated
    age,        \* loop variable of simulate_path
    w,          \* working copies and locals of simulate_path
    ledger,     \* ledger of the path being simulated
    obs,        \* observations of the path being simulated
    paths,      \* results of the paths simulated so far in this call
    results,    \* what each finished call of simulate returned
    call,       \* a call of one of the calculators on its own, or NoCall
    ret         \* what that call returned

vars == <<plan, plan0, n_paths, seed, pc, rngPos, pathNo, age, w, ledger, obs,
          paths, results, call, ret>>

NoCall == [fn |-> "none"]

NotReturned == [done |-> FALSE]

\* some return of the plan is drawn with a spread: rng.normal(mean, 0) is
\* mean whatever the generator holds
RandomReturns(p) ==
    \/ IsSplit(p) /\ p.returns_correlated
    \/ \E k \in SplitKeys \cup {"pre_tax", "roth", "taxable"} :
           p.accounts[k].stdev_return # Zero

\* the seeds tried: a plan without random returns does the same under every
\* seed, and one seed stands for all of them
Seeds(p) == IF RandomReturns(p) THEN 0..(NumSeeds - 1) ELSE {0}

Init ==
    /\ plan \in Plans
    /\ plan0 = plan
    /\ n_paths \in 0..MaxPaths
    /\ seed \in Seeds(plan)
    /\ pc = "idle"
    /\ rngPos = 0
    /\ pathNo = 0
    /\ age = plan.current_age
    /\ w = StartPath(plan)
    /\ ledger = <<>>
    /\ obs = <<>>
    /\ paths = <<>>
    /\ results = <<>>
    /\ call = NoCall
    /\ ret = NotReturned

\* the account mappings are copied (.copy()) before the loop advances them, so
\* the caller's plan does not see the working balances
PlanSeenByCaller_Aliased(p, ww) ==
    [p EXCEPT !.accounts.pre_tax.balance = ww.pre_tax,
              !.accounts.roth.balance = ww.roth,
              !.accounts.taxable.balance = ww.taxable,
              !.accounts.cash.balance = ww.cash,
              !.accounts.pre_tax_401k.balance = ww.pre_tax_401k,
              !.accounts.pre_tax_ira.balance = ww.pre_tax_ira,
              !.accounts.roth_401k.balance = ww.roth_401k,
              !.accounts.roth_ira.balance = ww.roth_ira]

PlanSeenByCaller(p, ww) == p

\* rng = np.random.default_rng(seed)
SeededPosition_Reused(pos) == pos

SeededPosition(pos) == 0

\* plan["current_age"] and plan["end_age"] in simulate raise KeyError when
\* the key is absent
simulate_Raises(p) == p.missing \cap {"current_age", "end_age"} # {}

\* int(plan["current_age"]), int(plan["end_age"]) and int(plan["retire_age"])
\* at the head of simulate_path and of _simulate_path_split
simulate_path_Raises(p) == p.missing \cap AgeKeys # {}

\* simulate is called: the generator is made and the first path begins;
\* range(n_paths) is empty when n_paths is 0
Simulate ==
    /\ pc = "idle"
    /\ Len(results) < MaxCalls
    /\ rngPos' = SeededPosition(rngPos)
    /\ pathNo' = IF n_paths > 0 THEN 1 ELSE 0
    /\ age' = plan.current_age
    /\ w' = StartPath(plan)
    /\ ledger' = <<>>
    /\ obs' = <<>>
    /\ paths' = <<>>
    /\ pc' = IF simulate_Raises(plan) THEN "raised"
             ELSE IF n_paths = 0 THEN "aggregate"
             ELSE IF simulate_path_Raises(plan) THEN "raised"
             ELSE "begin"
    /\ UNCHANGED <<plan, plan0, n_paths, seed, results>>
    /\ UNCHANGED <<call, ret>>

\* first part of the loop body, up to the state tax
YearBegin ==
    /\ pc = "begin"
    /\ w' = PathBeginYear(plan, w, age)
    /\ plan' = PlanSeenByCaller(plan, w')
    /\ pc' = IF w'.raised THEN "raised" ELSE "returns"
    /\ UNCHANGED <<plan0, n_paths, seed, rngPos, pathNo, age, ledger, obs,
                   paths, results>>
    /\ UNCHANGED <<call, ret>>

\* the exception leaves simulate
Raise ==
    /\ pc = "raised"
    /\ results' = Append(results, [raised |-> TRUE])
    /\ pc' = "idle"
    /\ UNCHANGED <<plan, plan0, n_paths, seed, rngPos, pathNo, age, w, ledger,
                   obs, paths>>
    /\ UNCHANGED <<call, ret>>

YearReturns ==
    /\ pc = "returns"
    /\ w' = PathReturns(plan, w, seed, rngPos)
    /\ rngPos' = rngPos + PathDraws(plan)
    /\ plan' = PlanSeenByCaller(plan, w')
    /\ pc' = "convert"
    /\ UNCHANGED <<plan0, n_paths, seed, pathNo, age, ledger, obs, paths,
                   results>>
    /\ UNCHANGED <<call, ret>>

YearConversion ==
    /\ pc = "convert"
    /\ w' = PathConversion(plan, w, age)
    /\ plan' = PlanSeenByCaller(plan, w')
    /\ pc' = "withdraw"
    /\ UNCHANGED <<plan0, n_paths, seed, rngPos, pathNo, age, ledger, obs,
                   paths, results>>
    /\ UNCHANGED <<call, ret>>

\* the end of the loop body with the locals w1: the row is appended; then the
\* next year, the next path or the aggregation
EndOfYear(w1) ==
    /\ plan' = PlanSeenByCaller(plan, w1)
    /\ IF age < plan.end_age
       THEN /\ age' = age + 1
            /\ w' = w1
            /\ ledger' = Append(ledger, LedgerRow(Balances(plan, w1), age))
            /\ obs' = Append(obs, YearObservation(w1, age))
            /\ pc' = "begin"
            /\ UNCHANGED <<pathNo, paths>>
       ELSE /\ paths' = Append(paths,
                   [ net_worth |->
                         NetWorthSeries(Append(ledger, LedgerRow(Balances(plan, w1), age))),
                     ledger |-> Append(ledger, LedgerRow(Balances(plan, w1), age)),
                     obs |-> Append(obs, YearObservation(w1, age)) ])
            /\ ledger' = <<>>
            /\ obs' = <<>>
            /\ age' = plan'.current_age
            /\ w' = StartPath(plan')
            /\ IF pathNo < n_paths
               THEN pathNo' = pathNo + 1 /\ pc' = "begin"
               ELSE pathNo' = pathNo /\ pc' = "aggregate"

\* retirement withdrawals and bookkeeping
YearWithdrawals ==
    /\ pc = "withdraw"
    /\ EndOfYear(PathWithdrawals(plan, w, age))
    /\ UNCHANGED <<plan0, n_paths, seed, rngPos, results>>
    /\ UNCHANGED <<call, ret>>

\* np.vstack raises ValueError when given an empty list
vstack_Raises(ps) == ps = <<>>

\* percentiles, median path and success probability; simulate returns, or
\* the exception of np.vstack leaves it
Finish ==
    /\ pc = "aggregate"
    /\ results' = Append(results,
                     IF vstack_Raises(paths) THEN [raised |-> TRUE]
                     ELSE [raised |-> FALSE] @@ Aggregate(paths))
    /\ pc' = "idle"
    /\ UNCHANGED <<plan, plan0, n_paths, seed, rngPos, pathNo, age, w, ledger,
                   obs, paths>>
    /\ UNCHANGED <<call, ret>>

Next ==
    \/ Simulate
    \/ YearBegin
    \/ Raise
    \/ YearReturns
    \/ YearConversion
    \/ YearWithdrawals
    \/ Finish

Spec == Init /\ [][Next]_vars

-----------------------------------------------------------------------------
(* The calculators called on their own, with arguments of the caller's     *)
(* choosing.                                                                *)

MaxPIA == 3        \* PIA of 0 .. MaxPIA thousand dollars a month
AgeSpread == 5     \* start ages from 62 - AgeSpread to 70 + AgeSpread

BenefitCalls ==
    { [fn |-> "social_security_benefit", PIA |-> R(pia), start_age |-> a,
       FRA |-> fra] :
      pia \in 0..MaxPIA, a \in (62 - AgeSpread)..(70 + AgeSpread),
      fra \in 65..68 }

CallPaths == 3     \* n_paths of the calls of simulate: 1 .. CallPaths

\* simulate on the plans whose paths differ from one another
SimulateCalls ==
    { [fn |-> "simulate", plan |-> p, n_paths |-> n, seed |-> s] :
      p \in {q \in ConversionPlans \cup SplitPlans : RandomReturns(q)},
      n \in 1..CallPaths, s \in 0..(NumSeeds - 1) }

\* _cover_need(need) on a retiree's accounts: need, cash, taxable balance and
\* basis, pre-tax balance and withdrawal tax rate, Roth, in thousands
CoverNeeds == {0, 5, 30, 60, 600}
CoverTaxable == {<<0, 0>>, <<20, 20>>, <<100, 0>>, <<1000, 0>>}
CoverRates == {Zero, Q(1, 5), One}

CoverCalls ==
    { [fn |-> "cover_need", need |-> R(n),
       plan |-> [BasePlan EXCEPT
                   !.accounts.cash.balance = R(c),
                   !.accounts.taxable =
                       [Account(R(t[1]), Zero, Zero, None)
                          EXCEPT !.basis = R(t[2])],
                   !.accounts.pre_tax = Account(R(pre), Zero, Zero, rate),
                   !.accounts.roth = Account(R(ro), Zero, Zero, None)]] :
      n \in CoverNeeds, c \in {0, 10}, t \in CoverTaxable,
      pre \in {0, 40}, rate \in CoverRates, ro \in {0, 10} }

Calls == BenefitCalls \cup SimulateCalls

InitCalls ==
    /\ plan = BasePlan
    /\ plan0 = plan
    /\ n_paths = 0
    /\ seed = 0
    /\ pc = "idle"
    /\ rngPos = 0
    /\ pathNo = 0
    /\ age = plan.current_age
    /\ ledger = <<>>
    /\ obs = <<>>
    /\ paths = <<>>
    /\ results = <<>>
    /\ w = StartPath(plan)
    /\ call \in Calls
    /\ ret = NotReturned

\* social_security_benefit(PIA, start_age, FRA) returns
BenefitReturns ==
    /\ call.fn = "social_security_benefit"
    /\ ~ret.done
    /\ ret' = [done |-> TRUE,
               value |-> social_security_benefit(call.PIA, call.start_age,
                                                 call.FRA)]
    /\ UNCHANGED <<plan, plan0, n_paths, seed, pc, rngPos, pathNo, age, w,
                   ledger, obs, paths, results, call>>

\* simulate(plan, n_paths, seed) returns; paths are the paths it simulated
SimulateReturns ==
    /\ call.fn = "simulate"
    /\ ~ret.done
    /\ ret' = [done |-> TRUE,
               value |-> simulate(call.plan, call.n_paths, call.seed),
               paths |-> simulate_paths(call.plan, call.n_paths, call.seed)]
    /\ UNCHANGED <<plan, plan0, n_paths, seed, pc, rngPos, pathNo, age, w,
                   ledger, obs, paths, results, call>>

MaxIterations == 10   \* the most iterations a call of _cover_need may take

\* iterations of the loop of _cover_need made so far
Iterations(r) == IF "iterations" \in DOMAIN r THEN r.iterations ELSE 0

\* _cover_need(need) runs one iteration of its loop
CoverIterates ==
    /\ call.fn = "cover_need"
    /\ ~ret.done
    /\ ~CoverExits(w)
    /\ w' = CoverIteration(call.plan, w)
    /\ ret' = [done |-> FALSE, iterations |-> Iterations(ret) + 1]
    /\ UNCHANGED <<plan, plan0, n_paths, seed, pc, rngPos, pathNo, age,
                   ledger, obs, paths, results, call>>

\* _cover_need(need) leaves its loop and returns
CoverReturns ==
    /\ call.fn = "cover_need"
    /\ ~ret.done
    /\ CoverExits(w)
    /\ ret' = [done |-> TRUE, iterations |-> Iterations(ret)]
    /\ UNCHANGED <<plan, plan0, n_paths, seed, pc, rngPos, pathNo, age, w,
                   ledger, obs, paths, results, call>>

NextCalls ==
    \/ BenefitReturns
    \/ SimulateReturns

CallSpec == InitCalls /\ [][NextCalls]_vars

\* _cover_need(need) is entered with the year's locals at zero
InitCover ==
    /\ plan = BasePlan
    /\ plan0 = plan
    /\ n_paths = 0
    /\ seed = 0
    /\ pc = "idle"
    /\ rngPos = 0
    /\ pathNo = 0
    /\ age = plan.current_age
    /\ ledger = <<>>
    /\ obs = <<>>
    /\ paths = <<>>
    /\ results = <<>>
    /\ call \in CoverCalls
    /\ w = [InitPath(call.plan) EXCEPT !.need = call.need]
    /\ ret = NotReturned

NextCover ==
    \/ CoverIterates
    \/ CoverReturns

CoverSpec == InitCover /\ [][NextCover]_vars

-----------------------------------------------------------------------------
(* Properties of simulate and simulate_path.                               *)

\* the runs of simulate_path in the current call: the finished paths and the
\* years of the path in progress
Runs ==
    {[ledger |-> ledger, obs |-> obs]} \cup
    {[ledger |-> paths[i].ledger, obs |-> paths[i].obs] : i \in 1..Len(paths)}

\* every year simulated in the current call, as <<ledger row, observation>>
SimulatedYears ==
    UNION {{<<run.ledger[y], run.obs[y]>> : y \in 1..Len(run.ledger)} :
           run \in Runs}

\* simulate has returned, and paths holds the paths of that call
Finished == pc = "idle" /\ results # <<>> /\ ~results[Len(results)].raised

LastResult == results[Len(results)]

Terminal(path) == path.ledger[Len(path.ledger)].net_worth

StartingNetWorth(p) == NetWorth(Balances(p, StartPath(p)))

RECURSIVE SumOver(_, _)
SumOver(rows, field) ==
    IF rows = <<>> THEN Zero
    ELSE RAdd(Head(rows)[field], SumOver(Tail(rows), field))

\* two calls ended alike: both raised, or both returned the same success
\* probability and percentile bands
SameBands(a, b) ==
    /\ a.raised = b.raised
    /\ ~a.raised =>
          /\ a.success_probability = b.success_probability
          /\ a.p10 = b.p10
          /\ a.p50 = b.p50
          /\ a.p90 = b.p90

\* C1: for any plan and any fixed (n_paths, seed), every call of simulate
\* returns the same success_probability and the same p10/p50/p90 bands as the
\* first call.
C1_Deterministic ==
    \A i \in 1..Len(results) : SameBands(results[1], results[i])

\* two calls have returned for a plan whose paths differ from one another
C1_Witness ==
    /\ Len(results) >= 2
    /\ ~results[2].raised
    /\ results[2].p10 # results[2].p90

\* C2: the caller's plan equals its value before the call at every point of
\* simulate, for merged and split account plans, and every path starts from
\* the plan's initial balances.
C2_PlanUnchanged ==
    /\ plan = plan0
    /\ (pc = "begin" /\ ledger = <<>>) => w = StartPath(plan0)

\* a call on a split-account plan has returned after two paths that moved the
\* balances
C2_Witness ==
    /\ Finished
    /\ IsSplit(plan0)
    /\ Len(paths) >= 2
    /\ Terminal(paths[1]) # StartingNetWorth(plan0)
    /\ Terminal(paths[2]) # StartingNetWorth(plan0)

AllZero(p) ==
    /\ \A k \in {"pre_tax", "roth", "taxable", "cash"} \cup SplitKeys :
           p.accounts[k].balance = Zero
    /\ p.income.salary = Zero
    /\ p.social_security.PIA = Zero

\* C4: a path that ends with exactly zero net worth counts as a failure: for a
\* plan whose every account starts at 0 with no income, simulate returns
\* success_probability 0.
C4_ZeroTerminalFails ==
    (Finished /\ AllZero(plan0)) => LastResult.success_probability = Zero

\* some retirement year of the run left part of its expense need uncovered
ShortInRetirement(run) ==
    \E y \in 1..Len(run.obs) :
        /\ run.obs[y].age >= plan0.retire_age
        /\ RPos(run.obs[y].unmet)

\* C5: a shortfall is data, not an error: when in every path some retirement
\* year's need exceeds what all accounts can supply, the paths end with
\* negative net worth and simulate returns success_probability 0.
C5_ShortfallLowersSuccess ==
    (Finished /\ \A i \in 1..Len(paths) : ShortInRetirement(paths[i])) =>
        /\ \A i \in 1..Len(paths) : RNegative(Terminal(paths[i]))
        /\ LastResult.success_probability = Zero

NonNegative(r) ==
    /\ RGe(r.pre_tax, Zero)
    /\ RGe(r.roth, Zero)
    /\ RGe(r.taxable, Zero)
    /\ RGe(r.cash, Zero)

\* C6: with non-negative starting balances, rates and annual_cap in [0,1] and
\* returns of at least -100%, every balance is >= 0 at every year end and
\* after every withdrawal, conversion and conversion-tax payment.
C6_BalancesNonNegative ==
    /\ NonNegative(Balances(plan0, w))
    /\ \A yr \in SimulatedYears : NonNegative(yr[1])

\* a retiree below the RMD age with no income, zero returns, the standard
\* strategy and nothing but a pre-tax account
OnlyPreTaxRetiree(p) ==
    /\ ~IsSplit(p)
    /\ p.state = ""
    /\ p.current_age >= p.retire_age
    /\ p.end_age < rmd_start_age(p.birth_year)
    /\ p.withdrawal_strategy = "standard"
    /\ ~p.roth_conversion.present
    /\ p.income.salary = Zero
    /\ p.social_security.PIA = Zero
    /\ \A k \in {"roth", "taxable", "cash"} : p.accounts[k].balance = Zero
    /\ \A k \in {"pre_tax", "roth", "taxable"} :
           /\ p.accounts[k].mean_return = Zero
           /\ p.accounts[k].stdev_return = Zero

\* C7: in a retirement year the expenses are funded once: for such a retiree
\* the gross withdrawn in the first year is min(balance, expenses / (1 - r))
\* and the pre-tax balance falls by that amount ($100,000, r = 0.2, $50,000
\* expenses: $62,500 withdrawn, $37,500 left).
C7_ExpensesFundedOnce ==
    OnlyPreTaxRetiree(plan0) =>
        \A run \in Runs :
            run.ledger # <<>> =>
                /\ run.ledger[1].withdrawals =
                       RMin(plan0.accounts.pre_tax.balance,
                            GrossUp(plan0.expenses.baseline,
                                    pre_tax_tax_rate(plan0)))
                /\ run.ledger[1].pre_tax =
                       RSub(plan0.accounts.pre_tax.balance,
                            run.ledger[1].withdrawals)

OutsideWindow(rc, a) == ~rc.present \/ a < rc.start_age \/ a > rc.end_age

ConversionWithinCap(row, o) ==
    /\ RGe(row.roth_conversion, Zero)
    /\ RLe(row.roth_conversion,
           RMul(plan0.roth_conversion.annual_cap, o.prior_pre_tax_balance))
    /\ RLe(row.roth_conversion, o.pre_at_conv)
    /\ OutsideWindow(plan0.roth_conversion, row.age) =>
           row.roth_conversion = Zero

\* C8: in every simulated year the gross Roth conversion in the ledger is at
\* most annual_cap times the pre-tax balance at the start of the year, at most
\* the pre-tax balance at the moment of conversion, never negative, and zero
\* when the age is outside [start_age, end_age] or there is no policy.
C8_ConversionCapped ==
    \A yr \in SimulatedYears : ConversionWithinCap(yr[1], yr[2])

\* a path converted in one year and, outside the window, converted nothing in
\* another year that began with a pre-tax balance
C8_Witness ==
    \E run \in Runs :
        \E y1, y2 \in 1..Len(run.ledger) :
            /\ RPos(run.ledger[y1].roth_conversion)
            /\ OutsideWindow(plan0.roth_conversion, run.ledger[y2].age)
            /\ RPos(run.obs[y2].prior_pre_tax_balance)
            /\ run.ledger[y2].roth_conversion = Zero

RmdAge(row) == row.age >= rmd_start_age(plan0.birth_year)

NetOfTax(gross) == RMul(gross, RSub(One, pre_tax_tax_rate(plan0)))

\* net proceeds of the distribution beyond the expense need went to cash
ExcessSwept(row, o) ==
    (RPos(o.rmd_gross)
       /\ RGe(NetOfTax(o.rmd_gross), RMax(Zero, row.expenses))) =>
        row.cash = RAdd(o.cash_at_rmd,
                        RSub(NetOfTax(o.rmd_gross), RMax(Zero, row.expenses)))

\* C9 as stated: in every simulated year with age >= rmd_start_age(birth_year)
\* the gross withdrawn from pre-tax is at least compute_rmd(start-of-year
\* pre-tax balance, age), and net proceeds beyond the need go to cash.
C9_RmdFloorEveryYear ==
    \A yr \in SimulatedYears :
        RmdAge(yr[1]) =>
            /\ RGe(yr[2].pre_withdrawn,
                   compute_rmd(yr[2].prior_pre_tax_balance, yr[1].age))
            /\ ExcessSwept(yr[1], yr[2])

\* C9 as the code has it: in every simulated year with age >= retire_age and
\* age >= rmd_start_age(birth_year) the gross withdrawn from pre-tax is at
\* least the smaller of compute_rmd(start-of-year pre-tax balance, age) and
\* the pre-tax balance left after that year's returns and conversion, and net
\* proceeds of the distribution beyond the need go to cash.
C9_RmdFloorInRetirement ==
    \A yr \in SimulatedYears :
        (RmdAge(yr[1]) /\ yr[1].age >= plan0.retire_age) =>
            /\ RGe(yr[2].pre_withdrawn,
                   RMin(compute_rmd(yr[2].prior_pre_tax_balance, yr[1].age),
                        RSub(yr[2].pre_at_conv, yr[1].roth_conversion)))
            /\ ExcessSwept(yr[1], yr[2])

\* a retired year at the RMD age with no expenses: the distribution was taken
\* and its proceeds were added to cash
C9_Witness ==
    \E yr \in SimulatedYears :
        /\ RmdAge(yr[1])
        /\ yr[1].age >= plan0.retire_age
        /\ yr[1].expenses = Zero
        /\ RPos(yr[2].rmd_gross)
        /\ RGt(yr[1].cash, yr[2].cash_at_rmd)

\* every mean and stdev of return is 0, every tax rate is 0, no gain is held
ZeroReturnZeroTax(p) ==
    /\ p.state = ""
    /\ p.income.tax_rate = Zero
    /\ p.accounts.pre_tax.withdrawal_tax_rate = Zero
    /\ p.accounts.taxable.withdrawal_tax_rate \in {None, Zero}
    /\ p.accounts.taxable.basis = None
    /\ ~p.roth_conversion.present \/ p.roth_conversion.tax_rate = Zero
    /\ ~(IsSplit(p) /\ p.returns_correlated)
    /\ \A k \in {"pre_tax", "roth", "taxable"} \cup SplitKeys :
           /\ p.accounts[k].mean_return = Zero
           /\ p.accounts[k].stdev_return = Zero

\* starting balances plus contributions and surplus swept to cash, minus the
\* withdrawals of the ledger
LedgerBalance(run) ==
    RSub(RAdd(RAdd(StartingNetWorth(plan0), SumOver(run.obs, "contributed")),
              SumOver(run.obs, "swept")),
         SumOver(run.ledger, "withdrawals"))

WithBaseline(p, b) == [p EXCEPT !.expenses.baseline = b]

Baselines == {Zero, R(30), R(50), R(100)}

\* C11: for a fixed plan, n_paths and seed, a baseline expense b1 <= b2 gives
\* a success_probability with b1 that is >= the success_probability with b2.
C11_SuccessMonotone ==
    (Finished /\ plan0.state = "") =>
        \A b \in Baselines :
            /\ RLe(b, plan0.expenses.baseline) =>
                  RGe(simulate(WithBaseline(plan0, b), n_paths, seed)
                          .success_probability,
                      LastResult.success_probability)
            /\ RLe(plan0.expenses.baseline, b) =>
                  RLe(simulate(WithBaseline(plan0, b), n_paths, seed)
                          .success_probability,
                      LastResult.success_probability)

\* simulate as a function returns what the call returned
SimulateAgrees ==
    (Finished /\ plan0.state = "") =>
        /\ simulate(plan0, n_paths, seed).success_probability
               = LastResult.success_probability
        /\ simulate(plan0, n_paths, seed).p50 = LastResult.p50
        /\ simulate(plan0, n_paths, seed).ledger_median = LastResult.ledger_median

\* P holds of every year simulated in the current call
EveryYear(P(_)) ==
    /\ \A y \in 1..Len(ledger) : P(<<ledger[y], obs[y]>>)
    /\ \A i \in 1..Len(paths) : \A y \in 1..Len(paths[i].ledger) :
           P(<<paths[i].ledger[y], paths[i].obs[y]>>)

\* a year of the merged loop before retirement whose income exceeds expenses
SurplusYear(row) ==
    /\ ~IsSplit(plan0)
    /\ row.age < plan0.retire_age
    /\ RGt(row.income, row.expenses)

RECURSIVE RPow(_, _)
RPow(a, n) == IF n = 0 THEN One ELSE RMul(a, RPow(a, n - 1))

\* the Roth cap of the year: the configured contribution, or under max_out
\* the annual limit grown once for every year simulated before
RothCap(p, a) ==
    IF p.accounts.roth.max_out
    THEN RMul(Get(p.accounts.roth.annual_limit, p.accounts.roth.contribution),
              RPow(RAdd(One, Get(p.accounts.roth.limit_growth, Zero)),
                   a - p.current_age))
    ELSE p.accounts.roth.contribution

ToPreTax(row) ==
    RMin(RSub(row.income, row.expenses), plan0.accounts.pre_tax.contribution)

ToRoth(row, cap) ==
    IF plan0.income.roth_income_limit # Inf
          /\ RGt(row.income, plan0.income.roth_income_limit)
    THEN Zero
    ELSE RMin(RSub(RSub(row.income, row.expenses), ToPreTax(row)), cap)

ToTaxable(row, cap) ==
    RMin(RSub(RSub(RSub(row.income, row.expenses), ToPreTax(row)),
              ToRoth(row, cap)),
         plan0.accounts.taxable.contribution)

ToCash(row, o, cap) ==
    RMax(Zero,
         RSub(RSub(RSub(RSub(RSub(row.income, row.expenses), ToPreTax(row)),
                        ToRoth(row, cap)),
                   ToTaxable(row, cap)),
              o.income_tax))

PriorityFollowed(row, o, cap) ==
    /\ o.pending_pre = ToPreTax(row)
    /\ o.pending_roth = ToRoth(row, cap)
    /\ o.pending_taxable = ToTaxable(row, cap)
    /\ o.swept = ToCash(row, o, cap)

\* C12 as stated: in a working year of the merged loop whose income exceeds
\* expenses, pre-tax, then Roth (nothing above roth_income_limit), then
\* taxable each receive min(remaining surplus, configured contribution), and
\* the surplus left after income tax is added to cash.
C12_ContributionPriority ==
    ~IsSplit(plan0) =>
        \A yr \in SimulatedYears :
            SurplusYear(yr[1]) =>
                PriorityFollowed(yr[1], yr[2],
                                 plan0.accounts.roth.contribution)

\* the priority in the year yr, Roth capped by RothCap
PriorityWithCapIn(yr) ==
    SurplusYear(yr[1]) =>
        PriorityFollowed(yr[1], yr[2], RothCap(plan0, yr[1].age))

\* C12, amended: as above, with the Roth cap being the configured
\* contribution, or when max_out is set the annual_limit grown by
\* limit_growth once for every year simulated before.
C12_ContributionPriorityMaxOut ==
    ~IsSplit(plan0) => EveryYear(PriorityWithCapIn)

\* a surplus year in which Roth is blocked by the income limit, pre-tax and
\* taxable receive their contributions and the rest is added to cash
C12_Witness ==
    \E yr \in SimulatedYears :
        /\ SurplusYear(yr[1])
        /\ RPos(yr[2].pending_pre)
        /\ yr[2].pending_roth = Zero
        /\ RPos(plan0.accounts.roth.contribution)
        /\ RPos(yr[2].pending_taxable)
        /\ RPos(yr[2].swept)

\* the balance is (balance before the returns, less what was paid in this
\* year) x (1 + return) + the contribution of the year
GrownThenPaid(o, k, contribution, included) ==
    o.at_conv[k] =
        RAdd(RMul(RSub(o.at_returns[k], included), o.growth[k]), contribution)

\* C13: in each working year an account's balance becomes (start-of-year
\* balance after any draws) x (1 + return) + contribution, so a contribution
\* never earns the return of the year in which it is made, for merged and for
\* split (401k/IRA) account plans.
C13_ContributionsAtYearEnd ==
    \A yr \in SimulatedYears :
        yr[1].age < plan0.retire_age =>
            IF IsSplit(plan0)
            THEN \A k \in {"pre_tax_401k", "pre_tax_ira", "roth_401k",
                           "roth_ira", "taxable"} :
                     GrownThenPaid(yr[2], k, yr[2].paid[k], yr[2].paid[k])
            ELSE /\ GrownThenPaid(yr[2], "pre_tax", yr[2].pending_pre, Zero)
                 /\ GrownThenPaid(yr[2], "roth", yr[2].pending_roth, Zero)
                 /\ GrownThenPaid(yr[2], "taxable", yr[2].pending_taxable,
                                  Zero)

\* the salary of the year: it grows by salary_growth after every working year
SalaryAt(p, a) ==
    IF a < p.retire_age
    THEN RMul(p.income.salary,
              RPow(RAdd(One, p.income.salary_growth), a - p.current_age))
    ELSE Zero

\* C14: when PIA > 0, in every simulated year with age >= claim_age the
\* ledger's income is the salary part plus social_security_benefit(PIA,
\* claim_age), and in every year before claim_age it holds no benefit, for
\* merged and for split (401k/IRA) account plans.
C14_BenefitInIncome ==
    \A yr \in SimulatedYears :
        RPos(plan0.social_security.PIA) =>
            yr[1].income =
                RAdd(SalaryAt(plan0, yr[1].age),
                     IF yr[1].age >= plan0.social_security.claim_age
                     THEN social_security_benefit(
                              plan0.social_security.PIA,
                              plan0.social_security.claim_age, DefaultFRA)
                     ELSE Zero)

\* the plan has merged accounts and the withdrawal strategy named s
MergedStrategy(s) == ~IsSplit(plan0) /\ plan0.withdrawal_strategy = s

\* a retirement year of the merged loop in which the strategy named s ran:
\* some need was left after the RMD
StrategyYear(row, o, s) ==
    /\ MergedStrategy(s)
    /\ row.age >= plan0.retire_age
    /\ RPos(o.at_strategy.need)

\* what the retirement withdrawals after the RMD took from account k
Drawn(row, o, k) == RSub(o.at_strategy[k], row[k])

\* the need left after a gross draw taxed at rate
NeedAfter(need, gross, rate) == RSub(need, RMul(gross, RSub(One, rate)))

\* min(balance, need grossed up) while some need is left
DrawFor(need, balance, rate) ==
    IF RPos(need) THEN RMin(balance, GrossUp(need, rate)) ELSE Zero

\* Roth, then cash, for the need left by the strategy
RothThenCash(row, o, need) ==
    /\ Drawn(row, o, "roth") = DrawFor(need, o.at_strategy.roth, Zero)
    /\ Drawn(row, o, "cash") =
           DrawFor(NeedAfter(need, Drawn(row, o, "roth"), Zero),
                   o.at_strategy.cash, Zero)

\* an account is reduced only if the accounts before it are at zero
OrderKept(row, o, order) ==
    \A i \in 1..Len(order) : \A j \in 1..(i - 1) :
        RPos(Drawn(row, o, order[i])) => row[order[j]] = Zero

\* the standard order in the year yr = <<ledger row, observation>>
StandardOrderIn(yr) ==
        StrategyYear(yr[1], yr[2], "standard") =>
            /\ Drawn(yr[1], yr[2], "taxable") =
                   DrawFor(yr[2].at_strategy.need, yr[2].at_strategy.taxable,
                           taxable_tax_rate(plan0))
            /\ Drawn(yr[1], yr[2], "pre_tax") =
                   DrawFor(NeedAfter(yr[2].at_strategy.need,
                                     Drawn(yr[1], yr[2], "taxable"),
                                     taxable_tax_rate(plan0)),
                           yr[2].at_strategy.pre_tax, pre_tax_tax_rate(plan0))
            /\ RothThenCash(yr[1], yr[2],
                   NeedAfter(NeedAfter(yr[2].at_strategy.need,
                                       Drawn(yr[1], yr[2], "taxable"),
                                       taxable_tax_rate(plan0)),
                             Drawn(yr[1], yr[2], "pre_tax"),
                             pre_tax_tax_rate(plan0)))
            /\ OrderKept(yr[1], yr[2],
                         <<"taxable", "pre_tax", "roth", "cash">>)

NetValue(o, k, rate) == RMul(o.at_strategy[k], RSub(One, rate))

\* the proportional shares in the year yr
ProportionalSharesIn(yr) ==
        (/\ StrategyYear(yr[1], yr[2], "proportional")
         /\ RLe(yr[2].at_strategy.need,
                RAdd(NetValue(yr[2], "taxable", taxable_tax_rate(plan0)),
                     NetValue(yr[2], "pre_tax", pre_tax_tax_rate(plan0)))))
        =>
            /\ RMul(RMul(Drawn(yr[1], yr[2], "taxable"),
                         RSub(One, taxable_tax_rate(plan0))),
                    NetValue(yr[2], "pre_tax", pre_tax_tax_rate(plan0)))
                 = RMul(RMul(Drawn(yr[1], yr[2], "pre_tax"),
                             RSub(One, pre_tax_tax_rate(plan0))),
                        NetValue(yr[2], "taxable", taxable_tax_rate(plan0)))
            /\ RAdd(RMul(Drawn(yr[1], yr[2], "taxable"),
                         RSub(One, taxable_tax_rate(plan0))),
                    RMul(Drawn(yr[1], yr[2], "pre_tax"),
                         RSub(One, pre_tax_tax_rate(plan0))))
                 = yr[2].at_strategy.need
            /\ Drawn(yr[1], yr[2], "roth") = Zero
            /\ Drawn(yr[1], yr[2], "cash") = Zero

BracketCeilingIn(yr) ==
        StrategyYear(yr[1], yr[2], "tax_bracket") =>
            /\ RGe(Drawn(yr[1], yr[2], "pre_tax"), Zero)
            /\ RLe(Drawn(yr[1], yr[2], "pre_tax"),
                   RMax(Zero, RSub(plan0.withdrawal_bracket.pre_tax_limit,
                                   yr[2].rmd_gross)))
            /\ RLe(Drawn(yr[1], yr[2], "pre_tax"), yr[2].at_strategy.pre_tax)
            /\ Drawn(yr[1], yr[2], "taxable") =
                   DrawFor(NeedAfter(yr[2].at_strategy.need,
                                     Drawn(yr[1], yr[2], "pre_tax"),
                                     pre_tax_tax_rate(plan0)),
                           yr[2].at_strategy.taxable, taxable_tax_rate(plan0))
            /\ RothThenCash(yr[1], yr[2],
                   NeedAfter(NeedAfter(yr[2].at_strategy.need,
                                       Drawn(yr[1], yr[2], "pre_tax"),
                                       pre_tax_tax_rate(plan0)),
                             Drawn(yr[1], yr[2], "taxable"),
                             taxable_tax_rate(plan0)))

\* C17: under the tax_bracket strategy of the merged loop the gross amount
\* the strategy draws from pre-tax is at most max(0, pre_tax_limit - gross RMD
\* of the year) and at most the pre-tax balance; only the need left after
\* that draw is taken from taxable, then Roth, then cash.
C17_BracketCeiling ==
    MergedStrategy("tax_bracket") => EveryYear(BracketCeilingIn)

\* a tax_bracket year after an RMD in which the pre-tax draw stopped at the
\* ceiling although more was needed and held
C17_Witness ==
    \E yr \in SimulatedYears :
        /\ StrategyYear(yr[1], yr[2], "tax_bracket")
        /\ RPos(yr[2].rmd_gross)
        /\ Drawn(yr[1], yr[2], "pre_tax") =
               RSub(plan0.withdrawal_bracket.pre_tax_limit, yr[2].rmd_gross)
        /\ RPos(yr[1].pre_tax)
        /\ RPos(yr[2].unmet)

\* the effect of the conversion of the year yr
ConversionMechanicsIn(yr) ==
        /\ yr[1].conversion_tax =
               RMul(yr[1].roth_conversion, plan0.roth_conversion.tax_rate)
        /\ RSub(yr[2].at_conv.pre_tax, yr[2].at_withdrawals.pre_tax)
               = yr[1].roth_conversion
        /\ RSub(yr[2].at_withdrawals.roth, yr[2].at_conv.roth) =
               IF plan0.roth_conversion.pay_tax_from_taxable
               THEN yr[1].roth_conversion
               ELSE RMax(Zero, RSub(yr[1].roth_conversion,
                                    yr[1].conversion_tax))
        /\ RSub(yr[2].at_conv.taxable, yr[2].at_withdrawals.taxable) =
               IF plan0.roth_conversion.pay_tax_from_taxable
                     /\ RPos(yr[1].roth_conversion)
               THEN yr[1].conversion_tax ELSE Zero
        /\ apply_conversion(yr[2].at_conv.pre_tax, yr[2].at_conv.roth,
                            yr[1].roth_conversion,
                            plan0.roth_conversion.tax_rate,
                            plan0.roth_conversion.pay_tax_from_taxable)
               = [ pre_tax |-> yr[2].at_withdrawals.pre_tax,
                   roth |-> yr[2].at_withdrawals.roth,
                   tax_due |-> yr[1].conversion_tax ]

\* C18: a conversion of gross G with tax T = G x tax_rate debits pre-tax by
\* exactly G in both modes; with pay_tax_from_taxable it credits Roth by G
\* and debits taxable by T, otherwise it credits Roth by max(0, G - T) and
\* leaves taxable unchanged; T is the ledger's conversion_tax; and
\* apply_conversion gives the same balances and tax.
C18_ConversionMechanics ==
    plan0.roth_conversion.present => EveryYear(ConversionMechanicsIn)

\* a conversion whose tax was withheld, and which left some pre-tax behind
C18_Witness ==
    \E yr \in SimulatedYears :
        /\ RPos(yr[1].roth_conversion)
        /\ RPos(yr[1].conversion_tax)
        /\ ~plan0.roth_conversion.pay_tax_from_taxable
        /\ RPos(yr[2].at_withdrawals.pre_tax)

\* C19: numerical edge cases do not throw: simulate returns without raising
\* for n_paths = 0 and for a single-year horizon (current_age = end_age), and
\* with n_paths = 1 each of p10, p50 and p90 is that path's net-worth
\* trajectory and the representative ledger is that path's ledger.  (Plans
\* with a state or without an age key are left out: they raise for another
\* reason.)
C19_EdgeCasesComplete ==
    (plan0.state = "" /\ plan0.missing = {}) =>
        /\ (n_paths = 0 \/ plan0.current_age = plan0.end_age) =>
               \A i \in 1..Len(results) : ~results[i].raised
        /\ (Finished /\ n_paths = 1) =>
               /\ LastResult.p10 = paths[1].net_worth
               /\ LastResult.p50 = paths[1].net_worth
               /\ LastResult.p90 = paths[1].net_worth
               /\ LastResult.ledger_median = paths[1].ledger

\* the parts of C19 other than n_paths = 0
C19_SingleYearSinglePath ==
    (plan0.state = "" /\ plan0.missing = {}) =>
        /\ (n_paths > 0 /\ plan0.current_age = plan0.end_age) =>
               \A i \in 1..Len(results) : ~results[i].raised
        /\ (Finished /\ n_paths = 1) =>
               /\ LastResult.p10 = paths[1].net_worth
               /\ LastResult.p50 = paths[1].net_worth
               /\ LastResult.p90 = paths[1].net_worth
               /\ LastResult.ledger_median = paths[1].ledger

\* C20: missing input never causes a hard failure: for a plan mapping that
\* lacks some of its fields (current_age, retire_age and end_age among them)
\* simulate_path raises nothing and returns a complete ledger, one row for
\* every age.  (Plans with a state are left out: they raise for another
\* reason.)
C20_MissingInputTolerated ==
    (plan0.missing # {} /\ plan0.state = "" /\ n_paths > 0) =>
        /\ pc # "raised"
        /\ \A i \in 1..Len(results) : ~results[i].raised
        /\ \A i \in 1..Len(paths) :
               Len(paths[i].ledger) = plan0.end_age - plan0.current_age + 1

\* C21: whenever plan.state is configured, every simulated year's state tax
\* is computed by compute_state_tax, included in the year's taxes and paid in
\* the order of the deficit cover, without raising: simulate_path returns and
\* no call of simulate ends in an exception.
C21_StateTaxApplied ==
    (plan0.state # "" /\ plan0.missing = {} /\ n_paths > 0) =>
        /\ pc # "raised"
        /\ \A i \in 1..Len(results) : ~results[i].raised

TerminalsOf(ps) == [i \in 1..Len(ps) |-> ps[i].net_worth[Len(ps[i].net_worth)]]

\* |terminal of path i - median of the terminals|
FromMedian(ps, i) ==
    RAbs(RSub(TerminalsOf(ps)[i], Median(TerminalsOf(ps))))

\* net_worth is the sum of the row's four balances
RowAddsUp(row) ==
    row.net_worth =
        RAdd(RAdd(RAdd(row.pre_tax, row.roth), row.taxable), row.cash)

\* C23: the ledger_median returned by simulate is the ledger of one literal
\* simulated path, one whose terminal net worth minimises |terminal - median
\* of all terminal net worths|, and each of its rows has a net_worth equal to
\* the sum of the row's four account balances.
C23_RepresentativeLedger ==
    (call.fn = "simulate" /\ ret.done) =>
        /\ \E i \in 1..Len(ret.paths) :
              /\ ret.value.ledger_median = ret.paths[i].ledger
              /\ \A j \in 1..Len(ret.paths) :
                    RLe(FromMedian(ret.paths, i), FromMedian(ret.paths, j))
        /\ \A y \in 1..Len(ret.value.ledger_median) :
              RowAddsUp(ret.value.ledger_median[y])

\* three paths with different terminal net worths, the first of them not the
\* closest to the median
C23_Witness ==
    /\ call.fn = "simulate"
    /\ ret.done
    /\ call.n_paths = 3
    /\ \A i, j \in 1..3 :
          i # j => TerminalsOf(ret.paths)[i] # TerminalsOf(ret.paths)[j]
    /\ ret.value.median_idx # 1
    /\ ret.value.ledger_median # ret.paths[1].ledger

\* a year in which the deficit cover ran
DeficitYear(o) == RPos(o.at_cover.deficit)

\* what the deficit cover took from account k
Covered(o, k) == RSub(o.at_cover[k], o.after_cover[k])

\* the tax the cover recorded beyond that of its pre-tax draw
OtherCoverTax(o) ==
    RSub(RSub(o.after_cover.withdraw_tax, o.at_cover.withdraw_tax),
         RMul(Covered(o, "pre_tax"), pre_tax_tax_rate(plan0)))

\* the deficit cover of the year yr = <<ledger row, observation>>
DeficitCoverIn(yr) ==
    DeficitYear(yr[2]) =>
        /\ \A k \in {"cash", "taxable", "pre_tax", "roth"} :
              RGe(Covered(yr[2], k), Zero)
        /\ Covered(yr[2], "cash") =
              RMin(yr[2].at_cover.cash, yr[2].at_cover.deficit)
        /\ RPos(Covered(yr[2], "taxable")) => yr[2].after_cover.cash = Zero
        /\ RPos(Covered(yr[2], "pre_tax")) =>
              /\ yr[2].after_cover.cash = Zero
              /\ yr[2].after_cover.taxable = Zero
              /\ Covered(yr[2], "pre_tax") =
                    RMin(yr[2].at_cover.pre_tax,
                         GrossUp(RAdd(RSub(RSub(yr[2].at_cover.deficit,
                                                Covered(yr[2], "cash")),
                                           Covered(yr[2], "taxable")),
                                      OtherCoverTax(yr[2])),
                                 pre_tax_tax_rate(plan0)))
        /\ RPos(Covered(yr[2], "roth")) =>
              /\ yr[2].after_cover.cash = Zero
              /\ yr[2].after_cover.taxable = Zero
              /\ yr[2].after_cover.pre_tax = Zero
        /\ RGe(OtherCoverTax(yr[2]), Zero)
        /\ RPos(OtherCoverTax(yr[2])) => RPos(Covered(yr[2], "taxable"))
        /\ RGe(yr[1].taxes,
               RMul(Covered(yr[2], "pre_tax"), pre_tax_tax_rate(plan0)))

\* C24: when income minus expenses, contributions and income tax is
\* negative, the deficit is covered by drawing cash first, then taxable, then
\* pre-tax, then Roth, a later source being touched only when every earlier
\* one is empty; a pre-tax draw is grossed up to min(balance, need / (1 -
\* rate)) and gross x rate is recorded in the year's taxes.
C24_DeficitCoverOrder == EveryYear(DeficitCoverIn)

\* a deficit that emptied cash and taxable and took a taxed draw from
\* pre-tax, leaving some of it
C24_Witness ==
    \E yr \in SimulatedYears :
        /\ DeficitYear(yr[2])
        /\ RPos(Covered(yr[2], "cash"))
        /\ RPos(Covered(yr[2], "taxable"))
        /\ RPos(Covered(yr[2], "pre_tax"))
        /\ RPos(pre_tax_tax_rate(plan0))
        /\ RPos(yr[2].after_cover.pre_tax)

\* the four balances are all at zero in the ledger row
AllEmpty(row) ==
    /\ row.taxable = Zero
    /\ row.pre_tax = Zero
    /\ row.roth = Zero
    /\ row.cash = Zero

\* some of the year's need is uncovered after the retirement withdrawals
NeedUnmet(yr) == yr[1].age >= plan0.retire_age /\ RPos(yr[2].unmet)

UnmetOnlyWhenEmptyIn(yr) == NeedUnmet(yr) => AllEmpty(yr[1])

UnmetOnlyWhenDrainedIn(yr) ==
    (NeedUnmet(yr) /\ RLt(pre_tax_tax_rate(plan0), One)
                   /\ RLt(taxable_tax_rate(plan0), One)) =>
        /\ yr[1].taxable = Zero
        /\ yr[1].roth = Zero
        /\ yr[1].cash = Zero
        /\ plan0.withdrawal_strategy # "tax_bracket" => yr[1].pre_tax = Zero
        /\ plan0.withdrawal_strategy = "tax_bracket" =>
              \/ yr[1].pre_tax = Zero
              \/ Drawn(yr[1], yr[2], "pre_tax") =
                    RMax(Zero, RSub(plan0.withdrawal_bracket.pre_tax_limit,
                                    yr[2].rmd_gross))

C25_WitnessEmptied ==
    \E yr \in SimulatedYears :
        /\ NeedUnmet(yr)
        /\ plan0.withdrawal_strategy = "proportional"
        /\ AllEmpty(yr[1])
        /\ RPos(Drawn(yr[1], yr[2], "pre_tax"))



\* the order in which the split loop pays the contributions
SplitOrder ==
    <<"pre_tax_401k", "roth_401k", "pre_tax_ira", "roth_ira", "taxable">>

RECURSIVE PaidBefore(_, _)
PaidBefore(o, i) ==
    IF i = 1 THEN Zero
    ELSE RAdd(PaidBefore(o, i - 1), o.paid[SplitOrder[i - 1]])

\* the surplus left when the i-th account of the order is reached
SurplusLeft(row, o, i) ==
    RSub(RSub(row.income, row.expenses), PaidBefore(o, i))

\* the account's configured contribution for the age: its flat amount or its
\* schedule entry, nothing for the Roth IRA above roth_income_limit
Configured(row, k) ==
    IF k = "roth_ira" /\ plan0.income.roth_income_limit # Inf
          /\ RGt(row.income, plan0.income.roth_income_limit)
    THEN Zero
    ELSE contribution_for_age(plan0.accounts[k], row.age)

\* 23,000 for a 401k and 7,000 for an IRA without a schedule
AnnualCap(k) ==
    IF k = "taxable" \/ plan0.accounts[k].contribution_schedule # <<>>
    THEN Inf
    ELSE IF k \in {"pre_tax_401k", "roth_401k"} THEN limit_401k ELSE limit_ira

Capped(amount, cap) == IF cap = Inf THEN amount ELSE RMin(amount, cap)

\* a year of the split loop before retirement whose income exceeds expenses
SplitSurplusYear(yr) ==
    /\ IsSplit(plan0)
    /\ yr[1].age < plan0.retire_age
    /\ RGt(yr[1].income, yr[1].expenses)

RemainderSwept(yr) ==
    yr[2].swept =
        RMax(Zero, RSub(SurplusLeft(yr[1], yr[2], 6), yr[2].income_tax))

SplitAmountsIn(yr) ==
    SplitSurplusYear(yr) =>
        /\ \A i \in 1..5 :
              yr[2].paid[SplitOrder[i]] =
                  RMin(SurplusLeft(yr[1], yr[2], i),
                       Configured(yr[1], SplitOrder[i]))
        /\ RemainderSwept(yr)

\* C26: for a plan in split-account form, in a working year with surplus,
\* contributions are made in the order pre-tax 401k, Roth 401k, pre-tax IRA,
\* Roth IRA, taxable, each equal to min(remaining surplus, that account's
\* configured contribution for the age), with Roth IRA receiving nothing when
\* income exceeds roth_income_limit and any remainder swept to cash.
C26_SplitAmounts == EveryYear(SplitAmountsIn)

SplitCappedAmountsIn(yr) ==
    SplitSurplusYear(yr) =>
        /\ \A i \in 1..5 :
              yr[2].paid[SplitOrder[i]] =
                  RMin(SurplusLeft(yr[1], yr[2], i),
                       Capped(Configured(yr[1], SplitOrder[i]),
                              AnnualCap(SplitOrder[i])))
        /\ RemainderSwept(yr)

\* C26 (amended): as above, each contribution being also capped at 23,000
\* for a 401k and at 7,000 for an IRA when the account has a flat amount and
\* no schedule.
C26_SplitCappedAmounts == EveryYear(SplitCappedAmountsIn)

\* flat amounts above the caps are cut to 23,000 and 7,000, the Roth IRA is
\* blocked by the income limit, taxable gets its amount and the rest is swept
C26_Witness ==
    \E yr \in SimulatedYears :
        /\ SplitSurplusYear(yr)
        /\ yr[2].paid.pre_tax_401k = limit_401k
        /\ RGt(plan0.accounts.pre_tax_401k.contribution, limit_401k)
        /\ yr[2].paid.pre_tax_ira = limit_ira
        /\ yr[2].paid.roth_ira = Zero
        /\ RPos(plan0.accounts.roth_ira.contribution)
        /\ RPos(yr[2].paid.taxable)
        /\ RPos(yr[2].swept)

\* a scheduled Roth IRA amount is paid for the age
C26_WitnessScheduled ==
    \E yr \in SimulatedYears :
        /\ SplitSurplusYear(yr)
        /\ plan0.accounts.roth_ira.contribution_schedule # <<>>
        /\ RPos(yr[2].paid.roth_ira)


\* the accounts that earn a return, and what is paid into each at year end
ReturnKeys ==
    IF IsSplit(plan0) THEN SplitKeys \cup {"taxable"}
    ELSE {"pre_tax", "roth", "taxable"}

PaidAtYearEnd(o, k) ==
    IF IsSplit(plan0) THEN Zero
    ELSE IF k = "pre_tax" THEN o.pending_pre
    ELSE IF k = "roth" THEN o.pending_roth
    ELSE o.pending_taxable

AllStdevZero ==
    \A k \in ReturnKeys : plan0.accounts[k].stdev_return = Zero

\* the returns step multiplies the balance of k by exactly 1 + its mean
GrownByMean(o, k) ==
    o.at_conv[k] =
        RAdd(RMul(o.at_returns[k], RAdd(One, plan0.accounts[k].mean_return)),
             PaidAtYearEnd(o, k))

DeterministicReturnsIn(yr) ==
    /\ AllStdevZero => \A k \in ReturnKeys : GrownByMean(yr[2], k)
    /\ yr[2].at_conv.cash = yr[2].at_returns.cash

\* C27: when every account's stdev_return is 0, each non-cash balance is
\* multiplied by exactly 1 + its own mean_return in both correlated and
\* independent modes, for merged and split account plans, and cash is left
\* unchanged by the returns step.
C27_DeterministicReturns == EveryYear(DeterministicReturnsIn)


\* the amounts of all special-expense records whose age is the given one
RECURSIVE SpecialTotal(_, _)
SpecialTotal(special_list, at) ==
    IF special_list = <<>> THEN Zero
    ELSE RAdd(IF Head(special_list).age = at
              THEN Head(special_list).amount ELSE Zero,
              SpecialTotal(Tail(special_list), at))

AllSpecialsChargedIn(yr) ==
    yr[1].expenses =
        RAdd(plan0.expenses.baseline,
             SpecialTotal(plan0.expenses.special, yr[1].age))

\* C28: for each simulated age, the year's expenses recorded in the ledger
\* equal the baseline plus the amounts of all special-expense records whose
\* age equals that age; records for other ages contribute nothing, and when
\* several records share an age each of them is charged.
C28_AllSpecialsCharged == EveryYear(AllSpecialsChargedIn)


\* the merged loop tracks the basis; the returns of the taxable account are
\* never negative and the basis starts within the balance
BasisPremise ==
    /\ ~IsSplit(plan0)
    /\ plan0.accounts.taxable.stdev_return = Zero
    /\ RGe(plan0.accounts.taxable.mean_return, Zero)
    /\ RGe(InitPath(plan0).basis, Zero)
    /\ RLe(InitPath(plan0).basis, plan0.accounts.taxable.balance)

BasisWithinBalanceIn(yr) ==
    BasisPremise =>
        /\ RGe(yr[2].basis, Zero)
        /\ RLe(yr[2].basis, yr[1].taxable)

\* C29: every debit of the taxable account reduces the tracked cost basis in
\* proportion to the amount taken and every contribution adds to it, so
\* 0 <= basis <= balance holds at every year end whenever it holds initially
\* and returns are non-negative.
C29_BasisWithinBalance == EveryYear(BasisWithinBalanceIn)


\* _cover_need has returned with the need covered or with every account empty
CoverReturnedWell ==
    /\ ret.done
    /\ \/ RLe(w.need, eps)
       \/ /\ w.cash = Zero
          /\ w.taxable = Zero
          /\ w.pre_tax = Zero
          /\ w.roth = Zero

\* what the four accounts hold together
CoverSources(ww) == RAdd(RAdd(ww.cash, ww.taxable), RAdd(ww.pre_tax, ww.roth))

\* the loop has not run more than MaxIterations times, and while it runs
\* the next iteration takes something out of the accounts
CoverProgresses ==
    /\ Iterations(ret) <= MaxIterations
    /\ (~ret.done /\ ~CoverExits(w)) =>
           RLt(CoverSources(CoverIteration(call.plan, w)), CoverSources(w))

\* C30: _cover_need always terminates: for every non-negative need,
\* non-negative balances and tax rates in [0,1] (including when the
\* capital-gains tax on a taxable draw is added back to the need), the loop
\* ends after finitely many iterations, and on exit either the need is
\* covered (<= 1e-9) or cash, taxable, pre-tax and Roth are all empty.
C30_CoverTerminates ==
    /\ CoverProgresses
    /\ ret.done => CoverReturnedWell

\* a call that returned after the capital-gains tax of a taxable draw was
\* added back to the need and drawn in later iterations
C30_Witness ==
    /\ call.fn = "cover_need"
    /\ ret.done
    /\ Iterations(ret) >= 3
    /\ RPos(w.withdraw_tax)
    /\ RPos(w.taxable)
    /\ RLe(w.need, eps)

\* a call that returned with need left and every account empty, after
\* pre-tax draws that are taxed away whole
C30_WitnessEmptied ==
    /\ call.fn = "cover_need"
    /\ ret.done
    /\ RPos(w.need)
    /\ pre_tax_tax_rate(call.plan) = One
    /\ RPos(call.plan.accounts.pre_tax.balance)
    /\ Iterations(ret) >= 2

=============================================================================
